---- MODULE Spec2Model ----
(***************************************************************************)
(* Research-idea assistant: knowledge extraction into a graph              *)
(* (knowledge_extraction.py), gap detection (gap_detection.py) and idea    *)
(* generation (idea_generation.py).                                        *)
(*                                                                         *)
(* A Python str is a sequence of one-character strings, so that strip,     *)
(* split, replace, startswith and lower are computed as Python computes    *)
(* them.  A Python list is a sequence, a set is a set, a dict that is      *)
(* iterated is a sequence of records in insertion order.  None and the     *)
(* two graph shapes are records tagged by the field kind.                  *)
(***************************************************************************)
EXTENDS Integers, Sequences, FiniteSets, TLC

VARIABLES
    extracted_data,   \* knowledge_extraction.extracted_data, the module global
    pc,               \* position inside extract_knowledge_and_build_graph
    runs,             \* calls of extract_knowledge_and_build_graph so far
    ndocs,            \* documents processed so far by this process
    embeddings,       \* the embeddings argument of the running call
    neo4j_graph,      \* local neo4j_graph: None or the store handle
    graph_data,       \* local graph_data: the in-memory graph
    domains,          \* local domains
    paper_concepts,   \* local paper_concepts (dict, insertion order)
    idx,              \* loop index of the document loop
    concepts,         \* local concepts of the last document
    methods,          \* local methods of the last document
    applications,     \* local applications of the last document
    run_docs,         \* history: the documents of this call as processed
    ret,              \* which object the call returned
    graph,            \* detect_gaps: argument graph
    lc_graph,         \* detect_gaps: argument lc_graph
    topics,           \* detect_gaps: argument topics
    dg_pc,            \* position inside detect_gaps
    primary_gaps,     \* detect_gaps: local neo4j_gaps or memory_gaps
    lc_gaps,          \* detect_gaps: local lc_gaps
    topic_gaps,       \* detect_gaps: local topic_gaps
    llm_gaps,         \* history: the gaps the LLM fallback appended
    all_gaps,         \* detect_gaps: local all_gaps
    llm_response,     \* detect_gaps: local response, None before the call
    llm_prompted,     \* history: llm(gap_prompt) was called
    hardcoded,        \* history: the predefined list was returned
    unique_gaps,      \* detect_gaps: the returned list
    gaps,             \* generate_research_ideas: argument gaps
    domain,           \* generate_research_ideas: argument domain
    ideas,            \* generate_research_ideas: local ideas
    ig_i,             \* gaps already taken by the loop over gaps
    ig_pc,            \* position inside generate_research_ideas
    query_results,    \* history: what the store answered to the five queries
    similarity_call,  \* calculate_similarity called on its own
    truncate_call,    \* lines 81-83 of the document loop run on their own
    lc_call           \* build_langchain_graph called on its own

extractVars == <<extracted_data, pc, runs, ndocs, embeddings, neo4j_graph,
                 graph_data, domains, paper_concepts, idx, concepts, methods,
                 applications, run_docs, ret>>

gapVars == <<graph, lc_graph, topics, dg_pc, primary_gaps, lc_gaps,
             topic_gaps, llm_gaps, all_gaps, llm_response, llm_prompted,
             hardcoded, unique_gaps, query_results>>

ideaVars == <<gaps, domain, ideas, ig_i, ig_pc>>

callVars == <<similarity_call, truncate_call, lc_call>>

vars == <<extractVars, gapVars, ideaVars, callVars>>

-----------------------------------------------------------------------------
(* Bounds of the model *)

MaxRuns == 2
MaxDocs == 2
MaxBatch == 1
MaxGaps == 2

-----------------------------------------------------------------------------
(* Python str and list operations *)

WhiteSpace == {" ", "\n", "\t"}

UpperCase == <<"A", "B", "C", "D", "E", "F", "G", "H", "I", "J", "K", "L", "M",
               "N", "O", "P", "Q", "R", "S", "T", "U", "V", "W", "X", "Y", "Z">>
LowerCase == <<"a", "b", "c", "d", "e", "f", "g", "h", "i", "j", "k", "l", "m",
               "n", "o", "p", "q", "r", "s", "t", "u", "v", "w", "x", "y", "z">>

\* c.lower() for one character
LowerOf ==
    [c \in {UpperCase[i] : i \in 1..Len(UpperCase)} |->
        LowerCase[CHOOSE i \in 1..Len(UpperCase) : UpperCase[i] = c]]

LowerChar(c) == IF c \in DOMAIN LowerOf THEN LowerOf[c] ELSE c

\* s.lower(), built as a sequence.
lower(s) == SubSeq([i \in 1..Len(s) |-> LowerChar(s[i])], 1, Len(s))

RECURSIVE lstrip(_)
lstrip(s) ==
    IF s # <<>> /\ Head(s) \in WhiteSpace THEN lstrip(Tail(s)) ELSE s

RECURSIVE rstrip(_)
rstrip(s) ==
    IF s # <<>> /\ s[Len(s)] \in WhiteSpace
    THEN rstrip(SubSeq(s, 1, Len(s) - 1))
    ELSE s

strip(s) == rstrip(lstrip(s))

startswith(s, p) == Len(s) >= Len(p) /\ SubSeq(s, 1, Len(p)) = p

\* s.split(sep) for a one-character sep: "" splits into [""].
RECURSIVE split(_, _)
split(s, sep) ==
    IF \E i \in 1..Len(s) : s[i] = sep
    THEN LET i == CHOOSE k \in 1..Len(s) :
                      s[k] = sep /\ \A j \in 1..(k - 1) : s[j] # sep
         IN  <<SubSeq(s, 1, i - 1)>> \o split(SubSeq(s, i + 1, Len(s)), sep)
    ELSE <<s>>

\* s.find(sub): the first position (from 0) of sub in s, or -1.
find(s, sub) ==
    LET at == {i \in 0..(Len(s) - Len(sub)) :
                  \/ sub = <<>>
                  \/ s[i + 1] = sub[1] /\ SubSeq(s, i + 1, i + Len(sub)) = sub}
    IN  IF at = {} THEN -1
        ELSE CHOOSE i \in at : \A j \in at : i <= j

\* s.replace(old, new), old not empty: leftmost non-overlapping occurrences.
RECURSIVE replace(_, _, _)
replace(s, old, new) ==
    LET n == find(s, old) IN
    IF n = -1 THEN s
    ELSE SubSeq(s, 1, n) \o new
         \o replace(SubSeq(s, n + Len(old) + 1, Len(s)), old, new)

\* s.split() without argument: the maximal runs of non-whitespace.
RECURSIVE split_ws(_)
split_ws(s) ==
    LET t == lstrip(s) IN
    IF t = <<>> THEN <<>>
    ELSE IF \E i \in 1..Len(t) : t[i] \in WhiteSpace
         THEN LET i == CHOOSE k \in 1..Len(t) :
                           t[k] \in WhiteSpace
                           /\ \A j \in 1..(k - 1) : t[j] \notin WhiteSpace
              IN  <<SubSeq(t, 1, i - 1)>> \o split_ws(SubSeq(t, i + 1, Len(t)))
         ELSE <<t>>

\* len(s.split()): one word starts wherever a character that is no
\* whitespace follows whitespace or opens the text.
WordCount(s) ==
    Cardinality({i \in 1..Len(s) :
        s[i] \notin WhiteSpace /\ (i = 1 \/ s[i - 1] \in WhiteSpace)})

RECURSIVE Flatten(_)
Flatten(ss) == IF ss = <<>> THEN <<>> ELSE Head(ss) \o Flatten(Tail(ss))

Range(s) == {s[i] : i \in 1..Len(s)}

\* list(a_set): the iteration order of a set is not specified.
RECURSIVE Orders(_)
Orders(S) ==
    IF S = {} THEN {<<>>}
    ELSE UNION {{<<x>> \o p : p \in Orders(S \ {x})} : x \in S}

Digit(n) == <<"0", "1", "2", "3", "4", "5", "6", "7", "8", "9">>[n + 1]

\* str(n) of a natural number.
RECURSIVE str(_)
str(n) == IF n < 10 THEN <<Digit(n)>> ELSE str(n \div 10) \o <<Digit(n % 10)>>

-----------------------------------------------------------------------------
(* Literal texts of the program *)

ConceptsPrefix == <<"-", " ", "C", "o", "n", "c", "e", "p", "t", "s", ":">>
MethodsPrefix == <<"-", " ", "M", "e", "t", "h", "o", "d", "s", ":">>
ApplicationsPrefix ==
    <<"-", " ", "A", "p", "p", "l", "i", "c", "a", "t", "i", "o", "n", "s", ":">>
PaperPrefix == <<"p", "a", "p", "e", "r", "_">>
UntitledPrefix ==
    <<"U", "n", "t", "i", "t", "l", "e", "d", " ", "P", "a", "p", "e", "r", " ">>

-----------------------------------------------------------------------------
(* calculate_similarity.  A score is the rational num/den, den > 0. *)

EmbeddingProviders == {"None", "vectors", "failing", "flaky", "ragged"}

\* An embeddings provider.  "vectors" answers every text with a fixed
\* vector, "failing" raises on every call, "flaky" raises on the texts
\* that begin with b, "ragged" answers with vectors of two dimensions.
\* Every vector has norm 5, so the cosine of two vectors is dot/25.
embed_query(provider, text) ==
    LET first == IF text = <<>> THEN "" ELSE LowerChar(Head(text)) IN
    CASE provider = "failing" -> [raised |-> TRUE, vector |-> <<>>]
      [] provider = "flaky" /\ first = "b" -> [raised |-> TRUE, vector |-> <<>>]
      [] provider = "ragged" ->
             [raised |-> FALSE,
              vector |-> IF first = "a" THEN <<5, 0>> ELSE <<3, 4, 0>>]
      [] OTHER ->
             [raised |-> FALSE,
              vector |-> CASE first = "a" -> <<5, 0>>
                           [] first = "b" -> <<3, 4>>
                           [] first = "c" -> <<0, 5>>
                           [] OTHER -> <<-4, 3>>]

\* Variant: the common words over the words of the first concept.
lexical_similarity_OverFirst(concept1, concept2) ==
    LET words1 == Range(split_ws(lower(concept1)))
        words2 == Range(split_ws(lower(concept2)))
    IN  IF words1 = {} \/ words2 = {}
        THEN [num |-> 0, den |-> 1]
        ELSE [num |-> Cardinality(words1 \cap words2),
              den |-> Cardinality(words1)]

\* Lines 15-24: the Jaccard overlap of the lower-cased word sets.
lexical_similarity(concept1, concept2) ==
    LET words1 == Range(split_ws(lower(concept1)))
        words2 == Range(split_ws(lower(concept2)))
    IN  IF words1 = {} \/ words2 = {}
        THEN [num |-> 0, den |-> 1]
        ELSE [num |-> Cardinality(words1 \cap words2),
              den |-> Cardinality(words1 \cup words2)]

\* Lines 26-32 raise: an embed_query call raises, or cosine_similarity
\* rejects two vectors of different dimensions.
EmbeddingRaises(emb1, emb2) ==
    \/ emb1.raised
    \/ emb2.raised
    \/ Len(emb1.vector) # Len(emb2.vector)

RECURSIVE dot(_, _)
dot(v, w) ==
    IF v = <<>> THEN 0 ELSE Head(v) * Head(w) + dot(Tail(v), Tail(w))

\* Variant: a failure of the provider scores 0.
calculate_similarity_ZeroOnError(concept1, concept2, provider) ==
    IF provider = "None"
    THEN lexical_similarity(concept1, concept2)
    ELSE LET emb1 == embed_query(provider, concept1)
             emb2 == embed_query(provider, concept2)
         IN  IF EmbeddingRaises(emb1, emb2)
             THEN [num |-> 0, den |-> 1]
             ELSE [num |-> dot(emb1.vector, emb2.vector), den |-> 25]

calculate_similarity(concept1, concept2, provider) ==
    IF provider = "None"
    THEN lexical_similarity(concept1, concept2)
    ELSE LET emb1 == embed_query(provider, concept1)
             emb2 == embed_query(provider, concept2)
         IN  IF EmbeddingRaises(emb1, emb2)
             THEN lexical_similarity(concept1, concept2)
             ELSE [num |-> dot(emb1.vector, emb2.vector), den |-> 25]

\* Variant: similarity >= 0.6
AboveThreshold_Inclusive(similarity) ==
    5 * similarity.num >= 3 * similarity.den

\* similarity > 0.6
AboveThreshold(similarity) == 5 * similarity.num > 3 * similarity.den

-----------------------------------------------------------------------------
(* The LLM reply parser of extract_knowledge_and_build_graph *)

\* [c.strip() for c in line.replace(prefix, "").split(",") if c.strip()]
Items(line, prefix) ==
    LET parts == split(replace(line, prefix, <<>>), ",")
        stripped == [i \in 1..Len(parts) |-> strip(parts[i])]
    IN  SelectSeq(stripped, LAMBDA c : c # <<>>)

\* d[key] = value on a dict kept in insertion order.
SetItem(d, key, value) ==
    IF \E i \in 1..Len(d) : d[i].key = key
    THEN [i \in 1..Len(d) |->
             IF d[i].key = key THEN [key |-> key, value |-> value] ELSE d[i]]
    ELSE Append(d, [key |-> key, value |-> value])

\* Variant: each set is rebound to the items of the line.
ParseLine_Replacing(acc, raw, paper_id) ==
    LET line == strip(raw) IN
    IF startswith(line, ConceptsPrefix)
    THEN LET cs == Items(line, ConceptsPrefix)
         IN  [acc EXCEPT !.concepts = cs,
                         !.ed.concepts = Range(cs),
                         !.paper_concepts = SetItem(@, paper_id, cs)]
    ELSE IF startswith(line, MethodsPrefix)
    THEN LET ms == Items(line, MethodsPrefix)
         IN  [acc EXCEPT !.methods = ms, !.ed.methods = Range(ms)]
    ELSE IF startswith(line, ApplicationsPrefix)
    THEN LET as == Items(line, ApplicationsPrefix)
         IN  [acc EXCEPT !.applications = as,
                         !.ed.applications = Range(as)]
    ELSE acc

\* Lines 101-112: one line of the reply.
ParseLine(acc, raw, paper_id) ==
    LET line == strip(raw) IN
    IF startswith(line, ConceptsPrefix)
    THEN LET cs == Items(line, ConceptsPrefix)
         IN  [acc EXCEPT !.concepts = cs,
                         !.ed.concepts = @ \cup Range(cs),
                         !.paper_concepts = SetItem(@, paper_id, cs)]
    ELSE IF startswith(line, MethodsPrefix)
    THEN LET ms == Items(line, MethodsPrefix)
         IN  [acc EXCEPT !.methods = ms, !.ed.methods = @ \cup Range(ms)]
    ELSE IF startswith(line, ApplicationsPrefix)
    THEN LET as == Items(line, ApplicationsPrefix)
         IN  [acc EXCEPT !.applications = as,
                         !.ed.applications = @ \cup Range(as)]
    ELSE acc

RECURSIVE ParseLines(_, _, _)
ParseLines(acc, lines, paper_id) ==
    IF lines = <<>> THEN acc
    ELSE ParseLines(ParseLine(acc, Head(lines), paper_id), Tail(lines), paper_id)

ParseResponse(response, paper_id, ed, pcs) ==
    ParseLines([concepts |-> <<>>, methods |-> <<>>, applications |-> <<>>,
                ed |-> ed, paper_concepts |-> pcs],
               split(response, "\n"), paper_id)

-----------------------------------------------------------------------------
(* The two graph representations *)

None == [kind |-> "None"]

Connected(g) == g.kind = "Neo4j" /\ g.is_connected

NamedNode(label, name) == [label |-> label, properties |-> [name |-> name]]

PaperNode(paper_id, title) ==
    [label |-> "Paper", properties |-> [id |-> paper_id, title |-> title]]

\* One create_relationship call, or the matching in-memory append.
Emit(from_label, from_key, type, to_label, to_key, properties) ==
    [from_label |-> from_label, source |-> from_key, type |-> type,
     to_label |-> to_label, target |-> to_key, properties |-> properties]

RECURSIVE Unique(_)
Unique(s) ==
    IF s = <<>> THEN <<>>
    ELSE LET rest == Unique(SubSeq(s, 1, Len(s) - 1)) IN
         IF s[Len(s)] \in Range(rest) THEN rest ELSE Append(rest, s[Len(s)])

\* Variant: a concept listed twice in one reply gets one node.
DocNodes_OnePerName(cs, ms, as) ==
    LET us == Unique(cs) IN
    [i \in 1..Len(us) |-> NamedNode("Concept", us[i])]
    \o [i \in 1..Len(ms) |-> NamedNode("Method", ms[i])]
    \o [i \in 1..Len(as) |-> NamedNode("Application", as[i])]

\* The nodes one document adds, in the order the loops add them.
DocNodes(cs, ms, as) ==
    [i \in 1..Len(cs) |-> NamedNode("Concept", cs[i])]
    \o [i \in 1..Len(ms) |-> NamedNode("Method", ms[i])]
    \o [i \in 1..Len(as) |-> NamedNode("Application", as[i])]

\* for concept in concepts: APPEARS_IN, and BELONGS_TO for every domain.
ConceptRelationships(paper_id, cs, ds) ==
    Flatten([i \in 1..Len(cs) |->
        <<Emit("Concept", cs[i], "APPEARS_IN", "Paper", paper_id,
               [confidence |-> "1.0"])>>
        \o [j \in 1..Len(ds) |->
               Emit("Concept", cs[i], "BELONGS_TO", "Domain", ds[j],
                    [relevance |-> "0.8"])]])

\* for method in methods: USED_IN.
MethodRelationships(paper_id, ms) ==
    [i \in 1..Len(ms) |->
        Emit("Method", ms[i], "USED_IN", "Paper", paper_id,
             [confidence |-> "1.0"])]

\* Variant: APPLIES goes to every concept accumulated so far.
ApplicationRelationships_Accumulated(paper_id, cs, ms, as) ==
    LET every == cs \o (CHOOSE l \in Orders(extracted_data.concepts) : TRUE) IN
    Flatten([i \in 1..Len(as) |->
        <<Emit("Application", as[i], "DESCRIBED_IN", "Paper", paper_id,
               [confidence |-> "1.0"])>>
        \o [j \in 1..Len(every) |->
               Emit("Application", as[i], "APPLIES", "Concept", every[j],
                    [strength |-> "0.9"])]
        \o [j \in 1..Len(ms) |->
               Emit("Application", as[i], "USES", "Method", ms[j],
                    [strength |-> "0.9"])]])

\* for app in applications: DESCRIBED_IN, APPLIES for every concept and
\* USES for every method of this document.
ApplicationRelationships(paper_id, cs, ms, as) ==
    Flatten([i \in 1..Len(as) |->
        <<Emit("Application", as[i], "DESCRIBED_IN", "Paper", paper_id,
               [confidence |-> "1.0"])>>
        \o [j \in 1..Len(cs) |->
               Emit("Application", as[i], "APPLIES", "Concept", cs[j],
                    [strength |-> "0.9"])]
        \o [j \in 1..Len(ms) |->
               Emit("Application", as[i], "USES", "Method", ms[j],
                    [strength |-> "0.9"])]])

\* for concept in concepts: for method in methods: IMPLEMENTED_BY.
ImplementedByRelationships(cs, ms) ==
    Flatten([i \in 1..Len(cs) |->
        [j \in 1..Len(ms) |->
            Emit("Concept", cs[i], "IMPLEMENTED_BY", "Method", ms[j],
                 [confidence |-> "0.8"])]])

\* Variant: BELONGS_TO goes to the first domain only.
DocRelationships_FirstDomain(paper_id, cs, ms, as, ds) ==
    ConceptRelationships(paper_id, cs, SubSeq(ds, 1, 1))
    \o MethodRelationships(paper_id, ms)
    \o ApplicationRelationships(paper_id, cs, ms, as)
    \o ImplementedByRelationships(cs, ms)

\* The relationships one document adds, in the order the loops add them.
DocRelationships(paper_id, cs, ms, as, ds) ==
    ConceptRelationships(paper_id, cs, ds)
    \o MethodRelationships(paper_id, ms)
    \o ApplicationRelationships(paper_id, cs, ms, as)
    \o ImplementedByRelationships(cs, ms)

\* graph_data["relationships"].append({...}): the in-memory builder keeps
\* source, target and type, and the properties of the two concept passes.
MemoryRelationship(e) ==
    IF e.type \in {"RELATED_TO", "CO_OCCURS_WITH"}
    THEN [source |-> e.source, target |-> e.target, type |-> e.type,
          properties |-> e.properties]
    ELSE [source |-> e.source, target |-> e.target, type |-> e.type]

AppendNodes(g, nodes) == [g EXCEPT !.nodes = @ \o nodes]

AppendRelationships(g, emitted) ==
    [g EXCEPT !.relationships =
        @ \o [i \in 1..Len(emitted) |-> MemoryRelationship(emitted[i])]]

\* The store adapter: create_node upserts by label and key,
\* create_relationship adds one edge per call.
NodeKey(node) ==
    IF node.label = "Paper" THEN node.properties.id ELSE node.properties.name

create_nodes(store, nodes) ==
    [store EXCEPT !.nodes =
        @ \cup {[label |-> nodes[i].label, key |-> NodeKey(nodes[i])] :
                   i \in 1..Len(nodes)}]

create_relationships(store, emitted) ==
    [store EXCEPT !.relationships = @ \o emitted]

-----------------------------------------------------------------------------
(* Inputs of extract_knowledge_and_build_graph *)

\* domain_input
DomainInputs == {<<"x">>, <<"x", ",", " ", "y">>}

\* doc.metadata: without id and title, or with both.
DocMetadata == {[given |-> FALSE, id |-> <<>>, title |-> <<>>],
                [given |-> TRUE, id |-> <<"p">>, title |-> <<"T">>]}

\* What llm(llm_prompt) returns for a document.
ReplySpec ==
    <<"-", " ", "C", "o", "n", "c", "e", "p", "t", "s", ":", " ", "A", ",",
      " ", "B", "\n", "-", " ", "M", "e", "t", "h", "o", "d", "s", ":", " ",
      "M", "\n", "-", " ", "A", "p", "p", "l", "i", "c", "a", "t", "i", "o",
      "n", "s", ":", " ", "A", "p", "p">>
ReplyCase ==
    <<"-", " ", "C", "o", "n", "c", "e", "p", "t", "s", ":", " ", "a", ",",
      " ", "A", "\n", "-", " ", "M", "e", "t", "h", "o", "d", "s", ":", " ",
      "M">>
ReplyDup ==
    <<" ", "-", " ", "C", "o", "n", "c", "e", "p", "t", "s", ":", " ", "A",
      " ", ",", " ", "A", ",", ",">>
ReplyTwo ==
    <<"-", " ", "C", "o", "n", "c", "e", "p", "t", "s", ":", " ", "B", "\n",
      "-", " ", "C", "o", "n", "c", "e", "p", "t", "s", ":", " ", "C">>
ReplyNone == <<"N", "o", "n", "e", ".">>

ExtractResponses == {ReplySpec, ReplyCase, ReplyDup, ReplyTwo, ReplyNone}

\* The documents of a call, each with the reply the LLM gives for it:
\* every reply for a document without metadata, two for one with metadata.
DocCases ==
    {[metadata |-> m, response |-> r] :
        m \in {x \in DocMetadata : ~x.given}, r \in ExtractResponses}
    \cup {[metadata |-> m, response |-> r] :
             m \in {x \in DocMetadata : x.given}, r \in {ReplySpec, ReplyCase}}

\* The embeddings argument of a call.
ExtractEmbeddings == {"None", "vectors"}

\* EnhancedNeo4jGraph(...): the import or the constructor raises, or a
\* handle is built, connected or not.
StoreHandles ==
    {None}
    \cup {[kind |-> "Neo4j", is_connected |-> c, nodes |-> {},
           relationships |-> <<>>] : c \in BOOLEAN}

EmptyGraphData == [kind |-> "dict", nodes |-> <<>>, relationships |-> <<>>]

-----------------------------------------------------------------------------
(* extract_knowledge_and_build_graph *)

\* for i, x in enumerate(l): for y in l[i+1:]
UpperPairs(l) ==
    Flatten([i \in 1..Len(l) |-> [k \in 1..(Len(l) - i) |-> <<l[i], l[i + k]>>]])

\* The RELATED_TO pass over concepts_list.
RelatedEmits(concepts_list, provider) ==
    LET pairs == UpperPairs(concepts_list)
        above == SelectSeq(pairs, LAMBDA p :
                     AboveThreshold(calculate_similarity(p[1], p[2], provider)))
    IN  [i \in 1..Len(above) |->
            Emit("Concept", above[i][1], "RELATED_TO", "Concept", above[i][2],
                 [similarity |->
                     calculate_similarity(above[i][1], above[i][2], provider)])]

\* The pairs that pass the concept_pairs test, in loop order.
RECURSIVE NewPairs(_, _)
NewPairs(candidates, concept_pairs) ==
    IF candidates = <<>> THEN <<>>
    ELSE LET c == Head(candidates) IN
         IF c \in concept_pairs \/ <<c[2], c[1]>> \in concept_pairs
         THEN NewPairs(Tail(candidates), concept_pairs)
         ELSE <<c>> \o NewPairs(Tail(candidates), concept_pairs \cup {c})

\* Variant: the pass emits every pair in both directions.
CoOccurEmits_BothDirections(pcs) ==
    LET candidates == Flatten([p \in 1..Len(pcs) |-> UpperPairs(pcs[p].value)])
        new == NewPairs(candidates, {})
    IN  Flatten([i \in 1..Len(new) |->
            <<Emit("Concept", new[i][1], "CO_OCCURS_WITH", "Concept",
                   new[i][2], [count |-> 1]),
              Emit("Concept", new[i][2], "CO_OCCURS_WITH", "Concept",
                   new[i][1], [count |-> 1])>>])

\* Variant: a concept listed twice is not paired with itself.
CoOccurEmits_DistinctOnly(pcs) ==
    LET candidates == Flatten([p \in 1..Len(pcs) |-> UpperPairs(pcs[p].value)])
        new == SelectSeq(NewPairs(candidates, {}), LAMBDA c : c[1] # c[2])
    IN  [i \in 1..Len(new) |->
            Emit("Concept", new[i][1], "CO_OCCURS_WITH", "Concept", new[i][2],
                 [count |-> 1])]

\* The CO_OCCURS_WITH pass over paper_concepts.
CoOccurEmits(pcs) ==
    LET candidates == Flatten([p \in 1..Len(pcs) |-> UpperPairs(pcs[p].value)])
        new == NewPairs(candidates, {})
    IN  [i \in 1..Len(new) |->
            Emit("Concept", new[i][1], "CO_OCCURS_WITH", "Concept", new[i][2],
                 [count |-> 1])]

\* doc.metadata.get("id", f"paper_{i}") and the title likewise.
MetadataId(metadata, i) ==
    IF metadata.given THEN metadata.id ELSE PaperPrefix \o str(i)

MetadataTitle(metadata, i) ==
    IF metadata.given THEN metadata.title ELSE UntitledPrefix \o str(i)

\* The appends of one document on the in-memory path (lines 80, 168-213).
InMemoryDoc(g, paper_id, paper_title, parsed, ds) ==
    AppendRelationships(
        AppendNodes(g, <<PaperNode(paper_id, paper_title)>>
                       \o DocNodes(parsed.concepts, parsed.methods,
                                   parsed.applications)),
        DocRelationships(paper_id, parsed.concepts, parsed.methods,
                         parsed.applications, ds))

\* The calls of one document on the store path (lines 78, 114-166).
StoreDoc(store, paper_id, paper_title, parsed, ds) ==
    create_relationships(
        create_nodes(store, <<PaperNode(paper_id, paper_title)>>
                            \o DocNodes(parsed.concepts, parsed.methods,
                                        parsed.applications)),
        DocRelationships(paper_id, parsed.concepts, parsed.methods,
                         parsed.applications, ds))

\* Lines 50-73: the store handle, graph_data, the domains and their nodes.
ExtractStart(domain_input, store, provider) ==
    /\ pc \in {"idle", "returned"}
    /\ runs < MaxRuns
    /\ LET parts == split(domain_input, ",")
           ds == [i \in 1..Len(parts) |-> strip(parts[i])]
           nodes == [i \in 1..Len(ds) |-> NamedNode("Domain", ds[i])]
       IN  /\ domains' = ds
           /\ extracted_data' =
                  [extracted_data EXCEPT !.domains = @ \cup Range(ds)]
           /\ IF Connected(store)
              THEN /\ neo4j_graph' = create_nodes(store, nodes)
                   /\ graph_data' = EmptyGraphData
              ELSE /\ neo4j_graph' = store
                   /\ graph_data' = AppendNodes(EmptyGraphData, nodes)
    /\ embeddings' = provider
    /\ paper_concepts' = <<>>
    /\ idx' = 0
    /\ concepts' = <<>>
    /\ methods' = <<>>
    /\ applications' = <<>>
    /\ run_docs' = <<>>
    /\ runs' = runs + 1
    /\ ret' = "none"
    /\ pc' = "docs"
    /\ UNCHANGED <<ndocs, gapVars, ideaVars, callVars>>

\* Lines 74-213: one iteration of the document loop.
ProcessDoc(metadata, response) ==
    /\ pc = "docs"
    /\ ndocs < MaxDocs
    /\ LET paper_id == MetadataId(metadata, idx)
           paper_title == MetadataTitle(metadata, idx)
           parsed == ParseResponse(response, paper_id, extracted_data,
                                   paper_concepts)
       IN  /\ concepts' = parsed.concepts
           /\ methods' = parsed.methods
           /\ applications' = parsed.applications
           /\ extracted_data' = parsed.ed
           /\ paper_concepts' = parsed.paper_concepts
           /\ run_docs' = Append(run_docs,
                  [paper_id |-> paper_id, response |-> response,
                   concepts |-> parsed.concepts, methods |-> parsed.methods,
                   applications |-> parsed.applications])
           /\ IF Connected(neo4j_graph)
              THEN /\ neo4j_graph' = StoreDoc(neo4j_graph, paper_id,
                                              paper_title, parsed, domains)
                   /\ UNCHANGED graph_data
              ELSE /\ graph_data' = InMemoryDoc(graph_data, paper_id,
                                                paper_title, parsed, domains)
                   /\ UNCHANGED neo4j_graph
    /\ idx' = idx + 1
    /\ ndocs' = ndocs + 1
    /\ pc' = "docs"
    /\ UNCHANGED <<runs, embeddings, domains, ret, gapVars,
                   ideaVars, callVars>>

\* Lines 214-237, after the last document: the RELATED_TO pass.
RelatedPass ==
    /\ pc = "docs"
    /\ \E concepts_list \in Orders(extracted_data.concepts) :
          LET emitted == RelatedEmits(concepts_list, embeddings) IN
          IF Connected(neo4j_graph)
          THEN /\ neo4j_graph' = create_relationships(neo4j_graph, emitted)
               /\ UNCHANGED graph_data
          ELSE /\ graph_data' = AppendRelationships(graph_data, emitted)
               /\ UNCHANGED neo4j_graph
    /\ pc' = "cooccur"
    /\ UNCHANGED <<extracted_data, runs, ndocs, embeddings, domains,
                   paper_concepts, idx, concepts, methods, applications,
                   run_docs, ret, gapVars, ideaVars, callVars>>

\* Lines 238-273: the CO_OCCURS_WITH pass and the return.
CoOccurPass ==
    /\ pc = "cooccur"
    /\ LET emitted == CoOccurEmits(paper_concepts) IN
       IF Connected(neo4j_graph)
       THEN /\ neo4j_graph' = create_relationships(neo4j_graph, emitted)
            /\ UNCHANGED graph_data
            /\ ret' = "neo4j_graph"
       ELSE /\ graph_data' = AppendRelationships(graph_data, emitted)
            /\ UNCHANGED neo4j_graph
            /\ ret' = "graph_data"
    /\ pc' = "returned"
    /\ UNCHANGED <<extracted_data, runs, ndocs, embeddings, domains,
                   paper_concepts, idx, concepts, methods, applications,
                   run_docs, gapVars, ideaVars, callVars>>

-----------------------------------------------------------------------------
(* The process: calls of extract_knowledge_and_build_graph, one after the  *)
(* other, on the same module global.                                       *)

\* detect_gaps not called.
GapsIdle ==
    /\ graph = None
    /\ lc_graph = None
    /\ topics = None
    /\ dg_pc = "idle"
    /\ primary_gaps = <<>>
    /\ lc_gaps = <<>>
    /\ topic_gaps = <<>>
    /\ llm_gaps = <<>>
    /\ all_gaps = <<>>
    /\ llm_response = None
    /\ llm_prompted = FALSE
    /\ hardcoded = FALSE
    /\ unique_gaps = <<>>
    /\ query_results = <<>>

\* generate_research_ideas not called.
IdeasIdle ==
    /\ gaps = <<>>
    /\ domain = <<>>
    /\ ideas = <<>>
    /\ ig_i = 0
    /\ ig_pc = "idle"

\* No function called on its own.
CallsIdle ==
    /\ similarity_call = [pc |-> "idle"]
    /\ truncate_call = [pc |-> "idle"]
    /\ lc_call = [pc |-> "idle"]

EmptyExtractedData ==
    [concepts |-> {}, methods |-> {}, applications |-> {}, domains |-> {}]

\* extract_knowledge_and_build_graph not called, the module just imported.
ExtractIdle ==
    /\ extracted_data = EmptyExtractedData
    /\ pc = "idle"
    /\ runs = 0
    /\ ndocs = 0
    /\ embeddings = "None"
    /\ neo4j_graph = None
    /\ graph_data = EmptyGraphData
    /\ domains = <<>>
    /\ paper_concepts = <<>>
    /\ idx = 0
    /\ concepts = <<>>
    /\ methods = <<>>
    /\ applications = <<>>
    /\ run_docs = <<>>
    /\ ret = "none"

Init ==
    /\ ExtractIdle
    /\ GapsIdle
    /\ IdeasIdle
    /\ CallsIdle

Next ==
    \/ \E domain_input \in DomainInputs, store \in StoreHandles,
          provider \in ExtractEmbeddings :
          ExtractStart(domain_input, store, provider)
    \/ \E doc \in DocCases : ProcessDoc(doc.metadata, doc.response)
    \/ RelatedPass
    \/ CoOccurPass

Spec == Init /\ [][Next]_vars

-----------------------------------------------------------------------------
(* Measures used by the properties *)

CountType(relationships, type) ==
    Cardinality({i \in 1..Len(relationships) : relationships[i].type = type})

CountLabel(nodes, label) ==
    Cardinality({i \in 1..Len(nodes) : nodes[i].label = label})

\* Everything after the first n elements.
Added(old, new) == SubSeq(new, Len(old) + 1, Len(new))

RECURSIVE SumOver(_)
SumOver(numbers) ==
    IF numbers = <<>> THEN 0 ELSE Head(numbers) + SumOver(Tail(numbers))

\* Every concept that some "- Concepts:" line of the reply lists.
ListedConcepts(response) ==
    LET lines == split(response, "\n") IN
    UNION {Range(Items(strip(lines[i]), ConceptsPrefix)) :
              i \in {k \in 1..Len(lines) :
                        startswith(strip(lines[k]), ConceptsPrefix)}}

InMemoryRun == pc # "idle" /\ ~Connected(neo4j_graph)

\* The end-to-end scenario: one document, reply "- Concepts: A, B /
\* - Methods: M / - Applications: App", domain "x", in-memory path.
Scenario ==
    /\ InMemoryRun
    /\ domains = <<(<<"x">>)>>
    /\ Len(run_docs) = 1
    /\ run_docs[1].response = ReplySpec

CoOccursAB ==
    Cardinality({i \in 1..Len(graph_data.relationships) :
        /\ graph_data.relationships[i].type = "CO_OCCURS_WITH"
        /\ {graph_data.relationships[i].source,
            graph_data.relationships[i].target} = {<<"A">>, <<"B">>}})

-----------------------------------------------------------------------------
(* Properties of extract_knowledge_and_build_graph *)

\* C4: at the start of every call (the domains of the call just added, no
\* document processed yet) the concept, method and application sets are
\* empty and the domain set holds the domains of this call only.
C4_FreshPerRun ==
    (pc = "docs" /\ idx = 0) =>
        /\ extracted_data.concepts = {}
        /\ extracted_data.methods = {}
        /\ extracted_data.applications = {}
        /\ extracted_data.domains = Range(domains)

\* C5: when a call returns, the shared concept set is exactly the union of
\* the concept lists parsed from the replies of the documents of that call.
C5_ConceptSetIsUnion ==
    pc = "returned" =>
        extracted_data.concepts =
            UNION {ListedConcepts(run_docs[i].response) :
                      i \in 1..Len(run_docs)}

\* C6 as stated: the returned in-memory graph holds (concepts per document,
\* each concept counted once per document) x (domains) BELONGS_TO
\* relationships.
C6_OncePerDocument ==
    (pc = "returned" /\ ret = "graph_data") =>
        CountType(graph_data.relationships, "BELONGS_TO") =
            SumOver([i \in 1..Len(run_docs) |->
                        Cardinality(Range(run_docs[i].concepts))])
            * Len(domains)

\* C6 amended: the returned in-memory graph holds (entries of the parsed
\* concept lists of all documents, a concept listed twice in one reply
\* counted twice) x (entries of the parsed domain list) BELONGS_TO
\* relationships.
C6_BelongsToCount ==
    (pc = "returned" /\ ret = "graph_data") =>
        CountType(graph_data.relationships, "BELONGS_TO") =
            SumOver([i \in 1..Len(run_docs) |-> Len(run_docs[i].concepts)])
            * Len(domains)

\* Two documents with two concepts each and one domain: four BELONGS_TO.
C6_Witness ==
    /\ pc = "returned" /\ ret = "graph_data"
    /\ Len(run_docs) = 2 /\ Len(domains) = 1
    /\ \A i \in 1..2 : Len(run_docs[i].concepts) = 2
    /\ CountType(graph_data.relationships, "BELONGS_TO") = 4

\* C7: in the returned in-memory graph no CO_OCCURS_WITH relationship joins
\* two concepts that a RELATED_TO relationship joins, in either direction.
C7_NoCoOccurrenceOnRelatedPair ==
    (pc = "returned" /\ ret = "graph_data") =>
        \A i, j \in 1..Len(graph_data.relationships) :
            LET r == graph_data.relationships[i]
                q == graph_data.relationships[j]
            IN  (r.type = "CO_OCCURS_WITH" /\ q.type = "RELATED_TO") =>
                    {r.source, r.target} # {q.source, q.target}

\* C8: on the in-memory path one document with c concepts, m methods and a
\* applications, with d domains, appends 1 Paper, c Concept, m Method and
\* a Application nodes and c APPEARS_IN, c*d BELONGS_TO, m USED_IN,
\* a DESCRIBED_IN, a*c APPLIES, a*m USES and c*m IMPLEMENTED_BY
\* relationships and nothing else; the Domain nodes are the d of the call;
\* the scenario document gives 6 nodes and 2,2,1,1,2,1,2 relationships.
C8_Step ==
    (pc = "docs" /\ pc' = "docs" /\ idx' = idx + 1 /\ InMemoryRun) =>
        LET c == Len(concepts')
            m == Len(methods')
            a == Len(applications')
            d == Len(domains)
            nodes == Added(graph_data.nodes, graph_data'.nodes)
            rels == Added(graph_data.relationships, graph_data'.relationships)
        IN  /\ SubSeq(graph_data'.nodes, 1, Len(graph_data.nodes))
                   = graph_data.nodes
            /\ SubSeq(graph_data'.relationships, 1,
                      Len(graph_data.relationships)) = graph_data.relationships
            /\ Len(nodes) = 1 + c + m + a
            /\ CountLabel(nodes, "Paper") = 1
            /\ CountLabel(nodes, "Concept") = c
            /\ CountLabel(nodes, "Method") = m
            /\ CountLabel(nodes, "Application") = a
            /\ CountLabel(graph_data'.nodes, "Domain") = d
            /\ Len(rels) = c + c * d + m + a + a * c + a * m + c * m
            /\ CountType(rels, "APPEARS_IN") = c
            /\ CountType(rels, "BELONGS_TO") = c * d
            /\ CountType(rels, "USED_IN") = m
            /\ CountType(rels, "DESCRIBED_IN") = a
            /\ CountType(rels, "APPLIES") = a * c
            /\ CountType(rels, "USES") = a * m
            /\ CountType(rels, "IMPLEMENTED_BY") = c * m
            /\ (Scenario' =>
                   /\ Len(graph_data'.nodes) = 6
                   /\ <<c, m, a, d>> = <<2, 1, 1, 1>>)

C8_DocumentEmission == [][C8_Step]_vars

\* The scenario document processed on the in-memory path.
C8_Witness ==
    /\ Scenario /\ pc = "docs" /\ idx = 1
    /\ Len(graph_data.nodes) = 6
    /\ CountType(graph_data.relationships, "APPLIES") = 2
    /\ CountType(graph_data.relationships, "IMPLEMENTED_BY") = 2

\* C9 as stated: in the scenario the relationships list holds 9
\* relationships before the similarity/co-occurrence pass, and the pass
\* adds 0 or 1 CO_OCCURS_WITH for the pair (A, B).
C9_NineRelationships ==
    /\ (Scenario /\ pc = "docs") => Len(graph_data.relationships) = 9
    /\ (Scenario /\ pc = "returned") => CoOccursAB \in {0, 1}

\* C9 amended: in the scenario the relationships list holds 11
\* relationships before the similarity/co-occurrence pass, and the pass
\* adds 0 or 1 CO_OCCURS_WITH for the pair (A, B).
C9_ElevenRelationships ==
    /\ (Scenario /\ pc = "docs") => Len(graph_data.relationships) = 11
    /\ (Scenario /\ pc = "returned") => CoOccursAB \in {0, 1}

\* The scenario run returned, the pair (A, B) linked by CO_OCCURS_WITH.
C9_Witness ==
    /\ Scenario /\ pc = "returned" /\ ret = "graph_data"
    /\ CoOccursAB = 1
    /\ Len(graph_data.relationships) >= 12

-----------------------------------------------------------------------------
(* Ordering of str values and the sorts of gap_detection.py *)

\* The characters in code-point order.
CodeOrder ==
    <<"\t", "\n", " ", "!", "\"", "'", "*", "+", ",", "-", ".", "0", "1", "2",
      "3", "4", "5", "6", "7", "8", "9", ":", "A", "B", "C", "D", "E", "F",
      "G", "H", "I", "J", "K", "L", "M", "N", "O", "P", "Q", "R", "S", "T",
      "U", "V", "W", "X", "Y", "Z", "_", "a", "b", "c", "d", "e", "f", "g",
      "h", "i", "j", "k", "l", "m", "n", "o", "p", "q", "r", "s", "t", "u",
      "v", "w", "x", "y", "z">>

ord(c) == CHOOSE i \in 1..Len(CodeOrder) : CodeOrder[i] = c

\* a < b on str
RECURSIVE StrLess(_, _)
StrLess(a, b) ==
    IF b = <<>> THEN FALSE
    ELSE IF a = <<>> THEN TRUE
    ELSE IF Head(a) = Head(b) THEN StrLess(Tail(a), Tail(b))
    ELSE ord(Head(a)) < ord(Head(b))

\* tuple(sorted([a, b]))
SortedPair(a, b) == IF StrLess(b, a) THEN <<b, a>> ELSE <<a, b>>

\* sorted(items, key=count): stable, ascending.
RECURSIVE SortAscending(_)
SortAscending(items) ==
    IF items = <<>> THEN <<>>
    ELSE LET front == SortAscending(SubSeq(items, 1, Len(items) - 1))
             x == items[Len(items)]
             k == Cardinality({i \in 1..Len(front) : front[i].count <= x.count})
         IN  SubSeq(front, 1, k) \o <<x>> \o SubSeq(front, k + 1, Len(front))

\* sorted(items, key=count, reverse=True): stable, descending.
RECURSIVE SortDescending(_)
SortDescending(items) ==
    IF items = <<>> THEN <<>>
    ELSE LET front == SortDescending(SubSeq(items, 1, Len(items) - 1))
             x == items[Len(items)]
             k == Cardinality({i \in 1..Len(front) : front[i].count >= x.count})
         IN  SubSeq(front, 1, k) \o <<x>> \o SubSeq(front, k + 1, Len(front))

\* l[:n]
Take(l, n) == SubSeq(l, 1, IF Len(l) < n THEN Len(l) ELSE n)

Occurrences(l, x) == Cardinality({i \in 1..Len(l) : l[i] = x})

-----------------------------------------------------------------------------
(* Literal texts of gap_detection.py *)

ApplicationsSuffix ==
    <<" ", "a", "p", "p", "l", "i", "c", "a", "t", "i", "o", "n", "s">>
IntegratedWith ==
    <<" ", "i", "n", "t", "e", "g", "r", "a", "t", "e", "d", " ", "w", "i",
      "t", "h", " ">>

common_words ==
    {<<"t", "h", "e">>, <<"a", "n", "d">>, <<"i", "s">>, <<"i", "n">>,
     <<"t", "o">>, <<"o", "f">>, <<"a">>, <<"f", "o", "r">>,
     <<"d", "a", "t", "a">>, <<"m", "o", "d", "e", "l">>,
     <<"u", "s", "i", "n", "g">>,
     <<"l", "e", "a", "r", "n", "i", "n", "g">>}

PredefinedGaps ==
    << <<"M", "u", "l", "t", "i", "m", "o", "d", "a", "l", " ", "L", "e", "a",
         "r", "n", "i", "n", "g", " ", "i", "n", " ", "L", "o", "w", "-", "r",
         "e", "s", "o", "u", "r", "c", "e", " ", "S", "e", "t", "t", "i", "n",
         "g", "s">>,
       <<"I", "n", "t", "e", "r", "p", "r", "e", "t", "a", "b", "l", "e", " ",
         "N", "e", "u", "r", "a", "l", " ", "L", "a", "n", "g", "u", "a", "g",
         "e", " ", "M", "o", "d", "e", "l", "s">>,
       <<"C", "r", "o", "s", "s", "-", "d", "o", "m", "a", "i", "n", " ", "K",
         "n", "o", "w", "l", "e", "d", "g", "e", " ", "T", "r", "a", "n", "s",
         "f", "e", "r">> >>

-----------------------------------------------------------------------------
(* detect_gaps_in_memory *)

NodeNames(nodes, label) ==
    LET chosen == SelectSeq(nodes, LAMBDA n : n.label = label)
    IN  Unique([i \in 1..Len(chosen) |-> chosen[i].properties.name])

\* concept_connections[name] after the loop over the relationships.
Connections(relationships, name) ==
    Cardinality({i \in 1..Len(relationships) : relationships[i].source = name})
    + Cardinality({i \in 1..Len(relationships) : relationships[i].target = name})

\* Lines 152-167: the concepts with the fewest relationships.
IsolatedConceptGaps(g) ==
    LET names == NodeNames(g.nodes, "Concept")
        items == [i \in 1..Len(names) |->
                     [item |-> names[i],
                      count |-> Connections(g.relationships, names[i])]]
        isolated_concepts == Take(SortAscending(items), 3)
        few == SelectSeq(isolated_concepts, LAMBDA x : x.count < 3)
    IN  [i \in 1..Len(few) |-> few[i].item]

\* Lines 168-178: the methods no USES relationship points to.
UnusedMethodGaps(g) ==
    LET names == NodeNames(g.nodes, "Method")
        unused == SelectSeq(names, LAMBDA m :
                      ~\E i \in 1..Len(g.relationships) :
                          /\ g.relationships[i].type = "USES"
                          /\ g.relationships[i].target = m)
    IN  [i \in 1..Len(unused) |-> unused[i] \o ApplicationsSuffix]

\* Lines 179-206: concept pairs of one paper without a direct link.
IntegrationGaps(g) ==
    LET rels == g.relationships
        concept_pairs ==
            {SortedPair(rels[i].source, rels[i].target) :
                i \in {k \in 1..Len(rels) :
                          rels[k].type \in {"RELATED_TO", "CO_OCCURS_WITH"}}}
        appears == SelectSeq(rels, LAMBDA r : r.type = "APPEARS_IN")
        papers == Unique([i \in 1..Len(appears) |-> appears[i].target])
        ConceptsOf(paper) ==
            LET own == SelectSeq(appears, LAMBDA r : r.target = paper)
            IN  [i \in 1..Len(own) |-> own[i].source]
        PairsOf(paper) ==
            LET ps == UpperPairs(ConceptsOf(paper))
                sorted == [i \in 1..Len(ps) |-> SortedPair(ps[i][1], ps[i][2])]
            IN  SelectSeq(sorted, LAMBDA q : q \notin concept_pairs)
        potential_pairs == Flatten([i \in 1..Len(papers) |-> PairsOf(papers[i])])
        keys == Unique(potential_pairs)
        pair_counts == [i \in 1..Len(keys) |->
                           [item |-> keys[i],
                            count |-> Occurrences(potential_pairs, keys[i])]]
        top_pairs == Take(SortDescending(pair_counts), 2)
    IN  [i \in 1..Len(top_pairs) |->
            top_pairs[i].item[1] \o IntegratedWith \o top_pairs[i].item[2]]

detect_gaps_in_memory(g) ==
    IF g.kind # "dict" THEN <<>>
    ELSE IsolatedConceptGaps(g) \o UnusedMethodGaps(g) \o IntegrationGaps(g)

-----------------------------------------------------------------------------
(* analyze_langchain_graph *)

\* node_connectivity.get(node_id, 0)
Connectivity(edges, node_id) ==
    Cardinality({i \in 1..Len(edges) : edges[i].source = node_id})
    + Cardinality({i \in 1..Len(edges) : edges[i].target = node_id})

\* Variant: every isolated concept and every unused method is returned.
analyze_langchain_graph_Unlimited(g) ==
    IF g.kind # "dict" THEN <<>>
    ELSE
    LET isolated == SelectSeq(g.nodes, LAMBDA n :
                        n.type = "Concept" /\ Connectivity(g.edges, n.id) < 2)
        isolated_concepts == [i \in 1..Len(isolated) |->
                                 isolated[i].properties.name]
        unused == SelectSeq(g.nodes, LAMBDA n :
                      /\ n.type = "Method"
                      /\ ~\E i \in 1..Len(g.edges) :
                            g.edges[i].target = n.id /\ g.edges[i].type = "USES")
        unused_methods == [i \in 1..Len(unused) |-> unused[i].properties.name]
    IN  isolated_concepts \o unused_methods

analyze_langchain_graph(g) ==
    IF g.kind # "dict" THEN <<>>
    ELSE
    LET isolated == SelectSeq(g.nodes, LAMBDA n :
                        n.type = "Concept" /\ Connectivity(g.edges, n.id) < 2)
        isolated_concepts == [i \in 1..Len(isolated) |->
                                 isolated[i].properties.name]
        unused == SelectSeq(g.nodes, LAMBDA n :
                      /\ n.type = "Method"
                      /\ ~\E i \in 1..Len(g.edges) :
                            g.edges[i].target = n.id /\ g.edges[i].type = "USES")
        unused_methods == [i \in 1..Len(unused) |-> unused[i].properties.name]
    IN  Take(isolated_concepts, 3) \o Take(unused_methods, 2)

-----------------------------------------------------------------------------
(* find_topic_gaps *)

\* The terms of one topic string: weight*"term" + weight*"term" + ...
TopicTerms(topic) ==
    LET term_parts == split(topic, "+")
        Parts(i) == split(strip(term_parts[i]), "*")
    IN  {replace(strip(Parts(i)[2]), <<"\"">>, <<>>) :
            i \in {k \in 1..Len(term_parts) : Len(Parts(k)) >= 2}}

\* The set that list(missing_concepts) lists; a topic that is no str raises
\* inside the try and contributes nothing.
find_topic_gaps(tps, ed) ==
    IF tps.kind # "dict" \/ tps.items = <<>> THEN {}
    ELSE LET topic_terms ==
                 UNION {IF tps.items[i].is_str
                        THEN TopicTerms(tps.items[i].topic) ELSE {} :
                           i \in 1..Len(tps.items)}
         IN  (topic_terms \ ed.concepts) \ common_words

-----------------------------------------------------------------------------
(* detect_gaps_neo4j *)

\* for query in all_queries: results = graph.query(query); a result is the
\* list of records the store returns, or the query raises.
RECURSIVE QueryGaps(_)
QueryGaps(results) ==
    IF results = <<>> THEN <<>>
    ELSE LET records == Head(results).records
             with_topic == SelectSeq(records, LAMBDA r :
                               "gap_topic" \in DOMAIN r /\ r.gap_topic # <<>>)
         IN  [i \in 1..Len(with_topic) |-> with_topic[i].gap_topic]
             \o QueryGaps(Tail(results))

\* Variant: the gaps of the queries before the failing one are returned.
detect_gaps_neo4j_KeepsEarlier(g, results) ==
    IF g.kind # "Neo4j" THEN <<>>
    ELSE LET failing == {i \in 1..Len(results) : results[i].raised} IN
         IF failing = {} THEN QueryGaps(results)
         ELSE LET first == CHOOSE i \in failing : \A j \in failing : i <= j
              IN  QueryGaps(SubSeq(results, 1, first - 1))

\* Lines 61-145: the five queries run inside one try whose except clause
\* returns [].
detect_gaps_neo4j(g, results) ==
    IF g.kind # "Neo4j" THEN <<>>
    ELSE IF \E i \in 1..Len(results) : results[i].raised THEN <<>>
    ELSE QueryGaps(results)

-----------------------------------------------------------------------------
(* The LLM fallback and the last step of detect_gaps *)

\* Lines 292-297: the numbered lines of the response.
RECURSIVE NumberedGaps(_)
NumberedGaps(lines) ==
    IF lines = <<>> THEN <<>>
    ELSE LET line == strip(Head(lines))
             gap == strip(SubSeq(line, 3, Len(line)))
         IN  (IF /\ \/ startswith(line, <<"1", ".">>)
                    \/ startswith(line, <<"2", ".">>)
                    \/ startswith(line, <<"3", ".">>)
                 /\ gap # <<>>
              THEN <<gap>> ELSE <<>>)
             \o NumberedGaps(Tail(lines))

\* Variant: every element kept.
fromkeys_KeepAll(found) == found

\* list(dict.fromkeys(all_gaps))
fromkeys(found) == Unique(found)

\* Line 304: if not unique_gaps
UsePredefined(found) == fromkeys(found) = <<>>

\* Variant: the deduplicated list returned as it is.
FinalGaps_AsCollected(found) == Take(fromkeys(found), 5)

\* Lines 302-312 on the collected all_gaps.
FinalGaps(found) ==
    IF UsePredefined(found) THEN PredefinedGaps ELSE Take(fromkeys(found), 5)

-----------------------------------------------------------------------------
(* are_related and build_langchain_graph *)

window_size == 100

abs(n) == IF n < 0 THEN -n ELSE n

are_related(concept, method, docs) ==
    LET concept_lower == lower(concept)
        method_lower == lower(method)
    IN  \E i \in 1..Len(docs) :
            LET content == lower(docs[i].page_content) IN
            /\ find(content, concept_lower) >= 0
            /\ find(content, method_lower) >= 0
            /\ abs(find(content, concept_lower) - find(content, method_lower))
                   < window_size

ConceptIdPrefix == <<"c", "o", "n", "c", "e", "p", "t", "-">>
MethodIdPrefix == <<"m", "e", "t", "h", "o", "d", "-">>
AppIdPrefix == <<"a", "p", "p", "-">>
DomainIdPrefix == <<"d", "o", "m", "a", "i", "n", "-">>
PaperIdPrefix == <<"p", "a", "p", "e", "r", "-">>

LcNode(prefix, type, name) ==
    [id |-> prefix \o name, type |-> type, properties |-> [name |-> name]]

LcEdge(source, target, type) ==
    [source |-> source, target |-> target, type |-> type]

\* order gives, for each of the four sets, the order its iteration yields.
build_langchain_graph(docs, order) ==
    LET cs == order.concepts
        ms == order.methods
        as == order.applications
        ds == order.domains
        nodes ==
            [i \in 1..Len(cs) |-> LcNode(ConceptIdPrefix, "Concept", cs[i])]
            \o [i \in 1..Len(ms) |-> LcNode(MethodIdPrefix, "Method", ms[i])]
            \o [i \in 1..Len(as) |-> LcNode(AppIdPrefix, "Application", as[i])]
            \o [i \in 1..Len(ds) |-> LcNode(DomainIdPrefix, "Domain", ds[i])]
            \o [i \in 1..Len(docs) |->
                   [id |-> PaperIdPrefix \o MetadataId(docs[i].metadata, i - 1),
                    type |-> "Paper",
                    properties |->
                        [id |-> MetadataId(docs[i].metadata, i - 1),
                         title |-> MetadataTitle(docs[i].metadata, i - 1)]]]
        implemented ==
            Flatten([i \in 1..Len(cs) |->
                SelectSeq([j \in 1..Len(ms) |-> <<cs[i], ms[j]>>],
                          LAMBDA p : are_related(p[1], p[2], docs))])
        similar ==
            SelectSeq(UpperPairs(cs), LAMBDA p :
                AboveThreshold(calculate_similarity(p[1], p[2], "None")))
        uses ==
            Flatten([i \in 1..Len(as) |->
                SelectSeq([j \in 1..Len(ms) |-> <<as[i], ms[j]>>],
                          LAMBDA p : are_related(p[1], p[2], docs))])
        edges ==
            [i \in 1..Len(implemented) |->
                LcEdge(ConceptIdPrefix \o implemented[i][1],
                       MethodIdPrefix \o implemented[i][2], "IMPLEMENTED_BY")]
            \o [i \in 1..Len(similar) |->
                   [source |-> ConceptIdPrefix \o similar[i][1],
                    target |-> ConceptIdPrefix \o similar[i][2],
                    type |-> "RELATED_TO",
                    properties |->
                        [similarity |-> calculate_similarity(
                             similar[i][1], similar[i][2], "None")]]]
            \o [i \in 1..Len(uses) |->
                   LcEdge(AppIdPrefix \o uses[i][1],
                          MethodIdPrefix \o uses[i][2], "USES")]
            \o Flatten([i \in 1..Len(cs) |->
                   [j \in 1..Len(ds) |->
                       LcEdge(ConceptIdPrefix \o cs[i],
                              DomainIdPrefix \o ds[j], "BELONGS_TO")]])
    IN  [kind |-> "dict", nodes |-> nodes, edges |-> edges]

-----------------------------------------------------------------------------
(* llm.py: GroqLLM *)

\* A value that is a str: what a call returns is Str(text) or None.
Str(text) == [kind |-> "str", text |-> text]

\* sub in s
contains(s, sub) == find(s, sub) >= 0

\* s.split(sep)[1], for a sep that occurs in s.
SecondPiece(s, sep) ==
    LET rest == SubSeq(s, find(s, sep) + Len(sep) + 1, Len(s))
        n == find(rest, sep)
    IN  IF n = -1 THEN rest ELSE SubSeq(rest, 1, n)

ResearchIdea ==
    <<"r", "e", "s", "e", "a", "r", "c", "h", " ", "i", "d", "e", "a">>

ConceptColon ==
    <<"c", "o", "n", "c", "e", "p", "t", ":">>

DomainOf ==
    <<"d", "o", "m", "a", "i", "n", " ", "o", "f">>

DefaultDomain == <<"N", "L", "P">>

\* Line 111
GenericFallback ==
    <<"I", " ", "c", "o", "u", "l", "d", "n", "'", "t", " ", "p", "r", "o",
      "c", "e", "s", "s", " ", "y", "o", "u", "r", " ", "r", "e", "q", "u",
      "e", "s", "t", " ", "t", "h", "r", "o", "u", "g", "h", " ", "t", "h",
      "e", " ", "A", "P", "I", ".", " ", "P", "l", "e", "a", "s", "e", " ",
      "t", "r", "y", " ", "a", "g", "a", "i", "n", " ", "l", "a", "t", "e",
      "r", ".">>

\* Lines 76-109, one text per template.
IdeaTemplate1(concept_text, domain_text) ==
    <<"\n", " ", " ", " ", " ", " ", " ", " ", " ", " ", " ", " ", " ", "#",
      " ", "L", "e", "v", "e", "r", "a", "g", "i", "n", "g", " ">>
    \o concept_text
    \o <<" ", "f", "o", "r", " ", "I", "m", "p", "r", "o", "v", "e", "d", " ",
      "C", "r", "o", "s", "s", "-", "l", "i", "n", "g", "u", "a", "l", " ",
      "T", "r", "a", "n", "s", "f", "e", "r", " ", "i", "n", " ">>
    \o domain_text
    \o <<"\n", " ", " ", " ", " ", " ", " ", " ", " ", " ", " ", " ", " ", "\n",
      " ", " ", " ", " ", " ", " ", " ", " ", " ", " ", " ", " ", "#", "#",
      " ", "P", "r", "o", "b", "l", "e", "m", " ", "S", "t", "a", "t", "e",
      "m", "e", "n", "t", "\n", " ", " ", " ", " ", " ", " ", " ", " ", " ",
      " ", " ", " ", "C", "u", "r", "r", "e", "n", "t", " ">>
    \o domain_text
    \o <<" ", "m", "o", "d", "e", "l", "s", " ", "s", "t", "r", "u", "g", "g",
      "l", "e", " ", "w", "i", "t", "h", " ", "e", "f", "f", "e", "c", "t",
      "i", "v", "e", " ", "k", "n", "o", "w", "l", "e", "d", "g", "e", " ",
      "t", "r", "a", "n", "s", "f", "e", "r", " ", "a", "c", "r", "o", "s",
      "s", " ", "l", "a", "n", "g", "u", "a", "g", "e", "s", " ", "w", "i",
      "t", "h", " ", "l", "i", "m", "i", "t", "e", "d", " ", "t", "r", "a",
      "i", "n", "i", "n", "g", " ", "d", "a", "t", "a", ".", "\n", " ", " ",
      " ", " ", " ", " ", " ", " ", " ", " ", " ", " ", "\n", " ", " ", " ",
      " ", " ", " ", " ", " ", " ", " ", " ", " ", "#", "#", " ", "P", "r",
      "o", "p", "o", "s", "e", "d", " ", "M", "e", "t", "h", "o", "d", "o",
      "l", "o", "g", "y", "\n", " ", " ", " ", " ", " ", " ", " ", " ", " ",
      " ", " ", " ", "D", "e", "s", "i", "g", "n", " ", "a", " ">>
    \o concept_text
    \o <<"-", "b", "a", "s", "e", "d", " ", "f", "r", "a", "m", "e", "w", "o",
      "r", "k", " ", "t", "h", "a", "t", " ", "a", "l", "i", "g", "n", "s",
      " ", "r", "e", "p", "r", "e", "s", "e", "n", "t", "a", "t", "i", "o",
      "n", "s", " ", "a", "c", "r", "o", "s", "s", " ", "l", "a", "n", "g",
      "u", "a", "g", "e", "s", " ", "w", "h", "i", "l", "e", " ", "p", "r",
      "e", "s", "e", "r", "v", "i", "n", "g", " ", "l", "a", "n", "g", "u",
      "a", "g", "e", "-", "s", "p", "e", "c", "i", "f", "i", "c", " ", "f",
      "e", "a", "t", "u", "r", "e", "s", ".", "\n", " ", " ", " ", " ", " ",
      " ", " ", " ", " ", " ", " ", " ", "\n", " ", " ", " ", " ", " ", " ",
      " ", " ", " ", " ", " ", " ", "#", "#", " ", "E", "x", "p", "e", "c",
      "t", "e", "d", " ", "I", "m", "p", "a", "c", "t", "\n", " ", " ", " ",
      " ", " ", " ", " ", " ", " ", " ", " ", " ", "T", "h", "i", "s", " ",
      "a", "p", "p", "r", "o", "a", "c", "h", " ", "w", "o", "u", "l", "d",
      " ", "s", "i", "g", "n", "i", "f", "i", "c", "a", "n", "t", "l", "y",
      " ", "i", "m", "p", "r", "o", "v", "e", " ">>
    \o domain_text
    \o <<" ", "c", "a", "p", "a", "b", "i", "l", "i", "t", "i", "e", "s", " ",
      "f", "o", "r", " ", "l", "o", "w", "-", "r", "e", "s", "o", "u", "r",
      "c", "e", " ", "l", "a", "n", "g", "u", "a", "g", "e", "s", " ", "a",
      "n", "d", " ", "r", "e", "d", "u", "c", "e", " ", "t", "h", "e", " ",
      "n", "e", "e", "d", " ", "f", "o", "r", " ", "l", "a", "r", "g", "e",
      " ", "p", "a", "r", "a", "l", "l", "e", "l", " ", "c", "o", "r", "p",
      "o", "r", "a", ".", "\n", " ", " ", " ", " ", " ", " ", " ", " ", " ",
      " ", " ", " ">>

IdeaTemplate2(concept_text, domain_text) ==
    <<"\n", " ", " ", " ", " ", " ", " ", " ", " ", " ", " ", " ", " ", "#",
      " ", "S", "e", "l", "f", "-", "s", "u", "p", "e", "r", "v", "i", "s",
      "e", "d", " ">>
    \o concept_text
    \o <<" ", "L", "e", "a", "r", "n", "i", "n", "g", " ", "f", "o", "r", " ",
      "D", "o", "m", "a", "i", "n", " ", "A", "d", "a", "p", "t", "a", "t",
      "i", "o", "n", " ", "i", "n", " ">>
    \o domain_text
    \o <<"\n", " ", " ", " ", " ", " ", " ", " ", " ", " ", " ", " ", " ", "\n",
      " ", " ", " ", " ", " ", " ", " ", " ", " ", " ", " ", " ", "#", "#",
      " ", "P", "r", "o", "b", "l", "e", "m", " ", "S", "t", "a", "t", "e",
      "m", "e", "n", "t", "\n", " ", " ", " ", " ", " ", " ", " ", " ", " ",
      " ", " ", " ">>
    \o domain_text
    \o <<" ", "m", "o", "d", "e", "l", "s", " ", "o", "f", "t", "e", "n", " ",
      "f", "a", "i", "l", " ", "w", "h", "e", "n", " ", "a", "p", "p", "l",
      "i", "e", "d", " ", "t", "o", " ", "s", "p", "e", "c", "i", "a", "l",
      "i", "z", "e", "d", " ", "d", "o", "m", "a", "i", "n", "s", " ", "d",
      "u", "e", " ", "t", "o", " ", "d", "o", "m", "a", "i", "n", " ", "s",
      "h", "i", "f", "t", ".", "\n", " ", " ", " ", " ", " ", " ", " ", " ",
      " ", " ", " ", " ", "\n", " ", " ", " ", " ", " ", " ", " ", " ", " ",
      " ", " ", " ", "#", "#", " ", "P", "r", "o", "p", "o", "s", "e", "d",
      " ", "M", "e", "t", "h", "o", "d", "o", "l", "o", "g", "y", "\n", " ",
      " ", " ", " ", " ", " ", " ", " ", " ", " ", " ", " ", "D", "e", "v",
      "e", "l", "o", "p", " ", "a", " ", "n", "o", "v", "e", "l", " ", "s",
      "e", "l", "f", "-", "s", "u", "p", "e", "r", "v", "i", "s", "e", "d",
      " ", "o", "b", "j", "e", "c", "t", "i", "v", "e", " ", "b", "a", "s",
      "e", "d", " ", "o", "n", " ">>
    \o concept_text
    \o <<" ", "t", "h", "a", "t", " ", "h", "e", "l", "p", "s", " ", "m", "o",
      "d", "e", "l", "s", " ", "a", "d", "a", "p", "t", " ", "t", "o", " ",
      "n", "e", "w", " ", "d", "o", "m", "a", "i", "n", "s", " ", "w", "i",
      "t", "h", " ", "m", "i", "n", "i", "m", "a", "l", " ", "s", "u", "p",
      "e", "r", "v", "i", "s", "i", "o", "n", ".", "\n", " ", " ", " ", " ",
      " ", " ", " ", " ", " ", " ", " ", " ", "\n", " ", " ", " ", " ", " ",
      " ", " ", " ", " ", " ", " ", " ", "#", "#", " ", "E", "x", "p", "e",
      "c", "t", "e", "d", " ", "I", "m", "p", "a", "c", "t", "\n", " ", " ",
      " ", " ", " ", " ", " ", " ", " ", " ", " ", " ", "T", "h", "i", "s",
      " ", "r", "e", "s", "e", "a", "r", "c", "h", " ", "w", "o", "u", "l",
      "d", " ", "e", "n", "a", "b", "l", "e", " ", "m", "o", "r", "e", " ",
      "r", "o", "b", "u", "s", "t", " ", "d", "e", "p", "l", "o", "y", "m",
      "e", "n", "t", " ", "o", "f", " ">>
    \o domain_text
    \o <<" ", "s", "y", "s", "t", "e", "m", "s", " ", "a", "c", "r", "o", "s",
      "s", " ", "d", "i", "v", "e", "r", "s", "e", " ", "s", "p", "e", "c",
      "i", "a", "l", "i", "z", "e", "d", " ", "d", "o", "m", "a", "i", "n",
      "s", " ", "l", "i", "k", "e", " ", "h", "e", "a", "l", "t", "h", "c",
      "a", "r", "e", ",", " ", "l", "e", "g", "a", "l", ",", " ", "a", "n",
      "d", " ", "s", "c", "i", "e", "n", "t", "i", "f", "i", "c", " ", "l",
      "i", "t", "e", "r", "a", "t", "u", "r", "e", ".", "\n", " ", " ", " ",
      " ", " ", " ", " ", " ", " ", " ", " ", " ">>

IdeaTemplate3(concept_text, domain_text) ==
    <<"\n", " ", " ", " ", " ", " ", " ", " ", " ", " ", " ", " ", " ", "#",
      " ", "M", "u", "l", "t", "i", "m", "o", "d", "a", "l", " ">>
    \o domain_text
    \o <<" ", "t", "h", "r", "o", "u", "g", "h", " ">>
    \o concept_text
    \o <<" ", "I", "n", "t", "e", "g", "r", "a", "t", "i", "o", "n", "\n", " ",
      " ", " ", " ", " ", " ", " ", " ", " ", " ", " ", " ", "\n", " ", " ",
      " ", " ", " ", " ", " ", " ", " ", " ", " ", " ", "#", "#", " ", "P",
      "r", "o", "b", "l", "e", "m", " ", "S", "t", "a", "t", "e", "m", "e",
      "n", "t", "\n", " ", " ", " ", " ", " ", " ", " ", " ", " ", " ", " ",
      " ", "M", "o", "s", "t", " ">>
    \o domain_text
    \o <<" ", "s", "y", "s", "t", "e", "m", "s", " ", "o", "p", "e", "r", "a",
      "t", "e", " ", "p", "r", "i", "m", "a", "r", "i", "l", "y", " ", "o",
      "n", " ", "t", "e", "x", "t", ",", " ", "i", "g", "n", "o", "r", "i",
      "n", "g", " ", "v", "a", "l", "u", "a", "b", "l", "e", " ", "i", "n",
      "f", "o", "r", "m", "a", "t", "i", "o", "n", " ", "f", "r", "o", "m",
      " ", "o", "t", "h", "e", "r", " ", "m", "o", "d", "a", "l", "i", "t",
      "i", "e", "s", ".", "\n", " ", " ", " ", " ", " ", " ", " ", " ", " ",
      " ", " ", " ", "\n", " ", " ", " ", " ", " ", " ", " ", " ", " ", " ",
      " ", " ", "#", "#", " ", "P", "r", "o", "p", "o", "s", "e", "d", " ",
      "M", "e", "t", "h", "o", "d", "o", "l", "o", "g", "y", "\n", " ", " ",
      " ", " ", " ", " ", " ", " ", " ", " ", " ", " ", "C", "r", "e", "a",
      "t", "e", " ", "a", " ", "u", "n", "i", "f", "i", "e", "d", " ", "a",
      "r", "c", "h", "i", "t", "e", "c", "t", "u", "r", "e", " ", "t", "h",
      "a", "t", " ", "l", "e", "v", "e", "r", "a", "g", "e", "s", " ">>
    \o concept_text
    \o <<" ", "t", "o", " ", "i", "n", "t", "e", "g", "r", "a", "t", "e", " ",
      "t", "e", "x", "t", ",", " ", "v", "i", "s", "u", "a", "l", ",", " ",
      "a", "n", "d", " ", "s", "t", "r", "u", "c", "t", "u", "r", "e", "d",
      " ", "d", "a", "t", "a", " ", "f", "o", "r", " ", "m", "o", "r", "e",
      " ", "c", "o", "m", "p", "r", "e", "h", "e", "n", "s", "i", "v", "e",
      " ", "u", "n", "d", "e", "r", "s", "t", "a", "n", "d", "i", "n", "g",
      ".", "\n", " ", " ", " ", " ", " ", " ", " ", " ", " ", " ", " ", " ",
      "\n", " ", " ", " ", " ", " ", " ", " ", " ", " ", " ", " ", " ", "#",
      "#", " ", "E", "x", "p", "e", "c", "t", "e", "d", " ", "I", "m", "p",
      "a", "c", "t", "\n", " ", " ", " ", " ", " ", " ", " ", " ", " ", " ",
      " ", " ", "T", "h", "i", "s", " ", "m", "u", "l", "t", "i", "m", "o",
      "d", "a", "l", " ", "a", "p", "p", "r", "o", "a", "c", "h", " ", "w",
      "o", "u", "l", "d", " ", "c", "r", "e", "a", "t", "e", " ", "m", "o",
      "r", "e", " ", "h", "u", "m", "a", "n", "-", "l", "i", "k", "e", " ">>
    \o domain_text
    \o <<" ", "s", "y", "s", "t", "e", "m", "s", " ", "c", "a", "p", "a", "b",
      "l", "e", " ", "o", "f", " ", "r", "e", "a", "s", "o", "n", "i", "n",
      "g", " ", "a", "c", "r", "o", "s", "s", " ", "d", "i", "f", "f", "e",
      "r", "e", "n", "t", " ", "t", "y", "p", "e", "s", " ", "o", "f", " ",
      "i", "n", "f", "o", "r", "m", "a", "t", "i", "o", "n", ".", "\n", " ",
      " ", " ", " ", " ", " ", " ", " ", " ", " ", " ", " ">>

\* sep.join(l)
RECURSIVE join(_, _)
join(l, sep) ==
    IF l = <<>> THEN <<>>
    ELSE IF Len(l) = 1 THEN l[1]
    ELSE l[1] \o sep \o join(Tail(l), sep)

JoinSeparator ==
    <<",", " ">>

\* Lines 50-62: the names _fallback_response samples from.
FallbackConcepts ==
    <<
      <<"N", "a", "t", "u", "r", "a", "l", " ", "L", "a", "n", "g", "u", "a",
        "g", "e", " ", "P", "r", "o", "c", "e", "s", "s", "i", "n", "g">>,
      <<"M", "a", "c", "h", "i", "n", "e", " ", "L", "e", "a", "r", "n", "i",
        "n", "g">>,
      <<"T", "e", "x", "t", " ", "A", "n", "a", "l", "y", "s", "i", "s">>,
      <<"D", "e", "e", "p", " ", "L", "e", "a", "r", "n", "i", "n", "g">>,
      <<"C", "o", "m", "p", "u", "t", "a", "t", "i", "o", "n", "a", "l", " ",
        "L", "i", "n", "g", "u", "i", "s", "t", "i", "c", "s">>,
      <<"L", "a", "n", "g", "u", "a", "g", "e", " ", "M", "o", "d", "e", "l",
        "i", "n", "g">>,
      <<"T", "r", "a", "n", "s", "f", "e", "r", " ", "L", "e", "a", "r", "n",
        "i", "n", "g">>,
      <<"N", "e", "u", "r", "a", "l", " ", "N", "e", "t", "w", "o", "r", "k",
        "s">>,
      <<"D", "a", "t", "a", " ", "M", "i", "n", "i", "n", "g">>,
      <<"T", "e", "x", "t", " ", "C", "l", "a", "s", "s", "i", "f", "i", "c",
        "a", "t", "i", "o", "n">>,
      <<"I", "n", "f", "o", "r", "m", "a", "t", "i", "o", "n", " ", "E", "x",
        "t", "r", "a", "c", "t", "i", "o", "n">>,
      <<"K", "n", "o", "w", "l", "e", "d", "g", "e", " ", "G", "r", "a", "p",
        "h", "s">>,
      <<"S", "e", "m", "a", "n", "t", "i", "c", " ", "A", "n", "a", "l", "y",
        "s", "i", "s">>
    >>

FallbackMethods ==
    <<
      <<"N", "e", "u", "r", "a", "l", " ", "N", "e", "t", "w", "o", "r", "k",
        "s">>,
      <<"T", "r", "a", "n", "s", "f", "o", "r", "m", "e", "r", "s">>,
      <<"S", "t", "a", "t", "i", "s", "t", "i", "c", "a", "l", " ", "A", "n",
        "a", "l", "y", "s", "i", "s">>,
      <<"D", "e", "e", "p", " ", "L", "e", "a", "r", "n", "i", "n", "g">>,
      <<"A", "t", "t", "e", "n", "t", "i", "o", "n", " ", "M", "e", "c", "h",
        "a", "n", "i", "s", "m", "s">>,
      <<"F", "i", "n", "e", "-", "t", "u", "n", "i", "n", "g">>,
      <<"R", "e", "i", "n", "f", "o", "r", "c", "e", "m", "e", "n", "t", " ",
        "L", "e", "a", "r", "n", "i", "n", "g">>,
      <<"U", "n", "s", "u", "p", "e", "r", "v", "i", "s", "e", "d", " ", "L",
        "e", "a", "r", "n", "i", "n", "g">>,
      <<"P", "r", "e", "-", "t", "r", "a", "i", "n", "i", "n", "g">>,
      <<"G", "r", "a", "p", "h", " ", "N", "e", "u", "r", "a", "l", " ", "N",
        "e", "t", "w", "o", "r", "k", "s">>,
      <<"B", "E", "R", "T">>,
      <<"G", "P", "T">>,
      <<"T", "5">>,
      <<"R", "o", "B", "E", "R", "T", "a">>
    >>

FallbackApplications ==
    <<
      <<"S", "e", "n", "t", "i", "m", "e", "n", "t", " ", "A", "n", "a", "l",
        "y", "s", "i", "s">>,
      <<"T", "e", "x", "t", " ", "C", "l", "a", "s", "s", "i", "f", "i", "c",
        "a", "t", "i", "o", "n">>,
      <<"M", "a", "c", "h", "i", "n", "e", " ", "T", "r", "a", "n", "s", "l",
        "a", "t", "i", "o", "n">>,
      <<"Q", "u", "e", "s", "t", "i", "o", "n", " ", "A", "n", "s", "w", "e",
        "r", "i", "n", "g">>,
      <<"S", "u", "m", "m", "a", "r", "i", "z", "a", "t", "i", "o", "n">>,
      <<"I", "n", "f", "o", "r", "m", "a", "t", "i", "o", "n", " ", "R", "e",
        "t", "r", "i", "e", "v", "a", "l">>,
      <<"N", "a", "m", "e", "d", " ", "E", "n", "t", "i", "t", "y", " ", "R",
        "e", "c", "o", "g", "n", "i", "t", "i", "o", "n">>,
      <<"C", "h", "a", "t", "b", "o", "t", "s">>,
      <<"S", "p", "e", "e", "c", "h", " ", "R", "e", "c", "o", "g", "n", "i",
        "t", "i", "o", "n">>,
      <<"C", "o", "n", "t", "e", "n", "t", " ", "R", "e", "c", "o", "m", "m",
        "e", "n", "d", "a", "t", "i", "o", "n">>,
      <<"F", "a", "c", "t", " ", "V", "e", "r", "i", "f", "i", "c", "a", "t",
        "i", "o", "n">>
    >>

\* "Extract key concepts"
ExtractKeyConcepts ==
    <<"E", "x", "t", "r", "a", "c", "t", " ", "k", "e", "y", " ", "c", "o",
      "n", "c", "e", "p", "t", "s">>

\* Lines 65-69: the text around the three joined samples.
FallbackConceptsLine ==
    <<"\n", " ", " ", " ", " ", " ", " ", " ", " ", " ", " ", " ", " ", "-",
      " ", "C", "o", "n", "c", "e", "p", "t", "s", ":", " ">>

FallbackMethodsLine ==
    <<"\n", " ", " ", " ", " ", " ", " ", " ", " ", " ", " ", " ", " ", "-",
      " ", "M", "e", "t", "h", "o", "d", "s", ":", " ">>

FallbackApplicationsLine ==
    <<"\n", " ", " ", " ", " ", " ", " ", " ", " ", " ", " ", " ", " ", "-",
      " ", "A", "p", "p", "l", "i", "c", "a", "t", "i", "o", "n", "s", ":",
      " ">>

FallbackTail ==
    <<"\n", " ", " ", " ", " ", " ", " ", " ", " ", " ", " ", " ", " ">>

\* What random.sample draws at lines 62-64, as positions in the three lists:
\* the first names in list order, the same names in another order, and a
\* draw in which a concept is also a method.
SampleDraws ==
    <<[concepts |-> <<1, 2, 3, 4>>, methods |-> <<1, 2, 3>>,
       applications |-> <<1, 2, 3>>],
      [concepts |-> <<3, 1, 4, 2>>, methods |-> <<2, 3, 1>>,
       applications |-> <<3, 2, 1>>],
      [concepts |-> <<4, 2, 3, 1>>, methods |-> <<4, 11, 2>>,
       applications |-> <<2, 8, 5>>]>>

\* random.sample(population, k) for the drawn positions
sample(population, drawn) ==
    [i \in 1..Len(drawn) |-> population[drawn[i]]]

\* Lines 49-69: the reply to a prompt with the words "Extract key concepts".
ExtractionFallback(choice) ==
    LET selected_concepts == sample(FallbackConcepts, SampleDraws[choice].concepts)
        selected_methods == sample(FallbackMethods, SampleDraws[choice].methods)
        selected_apps ==
            sample(FallbackApplications, SampleDraws[choice].applications)
    IN  FallbackConceptsLine \o join(selected_concepts, JoinSeparator)
        \o FallbackMethodsLine \o join(selected_methods, JoinSeparator)
        \o FallbackApplicationsLine \o join(selected_apps, JoinSeparator)
        \o FallbackTail

\* Variant: a prompt with the words "Extract key concepts" is answered with
\* the generic text, which has no line the parser accepts.
fallback_response_Generic(prompt, choice) ==
    LET lowered == lower(prompt) IN
    IF contains(prompt, ExtractKeyConcepts)
    THEN GenericFallback
    ELSE IF contains(lowered, ResearchIdea)
    THEN LET concept_text ==
                 IF contains(lowered, ConceptColon)
                 THEN strip(split(SecondPiece(lowered, ConceptColon), ".")[1])
                 ELSE <<>>
             domain_text ==
                 IF contains(lowered, DomainOf)
                 THEN strip(split(SecondPiece(lowered, DomainOf), " ")[2])
                 ELSE DefaultDomain
         IN  CASE choice = 1 -> IdeaTemplate1(concept_text, domain_text)
               [] choice = 2 -> IdeaTemplate2(concept_text, domain_text)
               [] choice = 3 -> IdeaTemplate3(concept_text, domain_text)
    ELSE GenericFallback

\* Lines 48-111: _fallback_response; choice is what the random module
\* draws: the sample of lines 62-64 or the template random.choice picks.
fallback_response(prompt, choice) ==
    LET lowered == lower(prompt) IN
    IF contains(prompt, ExtractKeyConcepts)
    THEN ExtractionFallback(choice)
    ELSE IF contains(lowered, ResearchIdea)
    THEN LET concept_text ==
                 IF contains(lowered, ConceptColon)
                 THEN strip(split(SecondPiece(lowered, ConceptColon), ".")[1])
                 ELSE <<>>
             domain_text ==
                 IF contains(lowered, DomainOf)
                 THEN strip(split(SecondPiece(lowered, DomainOf), " ")[2])
                 ELSE DefaultDomain
         IN  CASE choice = 1 -> IdeaTemplate1(concept_text, domain_text)
               [] choice = 2 -> IdeaTemplate2(concept_text, domain_text)
               [] choice = 3 -> IdeaTemplate3(concept_text, domain_text)
    ELSE GenericFallback

\* Lines 24-27: len(prompt.split()) * 1.35 > 4000
TooLarge(prompt) == WordCount(prompt) * 135 > 400000

\* Lines 15-46: GroqLLM.__call__; api is what the environment and the
\* service do: no key, a transport exception, an HTTP status, the content.
GroqLLM(prompt, api, choice) ==
    IF ~api.has_key THEN Str(fallback_response(prompt, choice))
    ELSE IF TooLarge(prompt) THEN Str(fallback_response(prompt, choice))
    ELSE IF api.raised THEN Str(fallback_response(prompt, choice))
    ELSE IF api.status = 200 THEN api.content
    ELSE Str(fallback_response(prompt, choice))

\* The outcomes of the service, for a set of contents it may answer.
ApiOutcomes(contents) ==
    {[has_key |-> FALSE, raised |-> FALSE, status |-> 0, content |-> None],
     [has_key |-> TRUE, raised |-> TRUE, status |-> 0, content |-> None],
     [has_key |-> TRUE, raised |-> FALSE, status |-> 500, content |-> None]}
    \cup {[has_key |-> TRUE, raised |-> FALSE, status |-> 200, content |-> c] :
             c \in contents}

\* What the random module draws: a sample of SampleDraws or a template.
TemplateChoices == {1, 2, 3}

-----------------------------------------------------------------------------
(* detect_gaps *)

\* Lines 275-287
GapPromptText(concepts_str, methods_str, applications_str) ==
    <<"\n", " ", " ", " ", " ", " ", " ", " ", " ", "B", "a", "s", "e", "d",
      " ", "o", "n", " ", "t", "h", "e", " ", "f", "o", "l", "l", "o", "w",
      "i", "n", "g", " ", "c", "o", "n", "c", "e", "p", "t", "s", ",", " ",
      "m", "e", "t", "h", "o", "d", "s", ",", " ", "a", "n", "d", " ", "a",
      "p", "p", "l", "i", "c", "a", "t", "i", "o", "n", "s", ",", "\n", " ",
      " ", " ", " ", " ", " ", " ", " ", "s", "u", "g", "g", "e", "s", "t",
      " ", "3", " ", "p", "o", "t", "e", "n", "t", "i", "a", "l", " ", "r",
      "e", "s", "e", "a", "r", "c", "h", " ", "g", "a", "p", "s", " ", "o",
      "r", " ", "u", "n", "d", "e", "r", "e", "x", "p", "l", "o", "r", "e",
      "d", " ", "a", "r", "e", "a", "s", ":", "\n", " ", " ", " ", " ", " ",
      " ", " ", " ", "\n", " ", " ", " ", " ", " ", " ", " ", " ", "C", "o",
      "n", "c", "e", "p", "t", "s", ":", " ">>
    \o concepts_str
    \o <<"\n", " ", " ", " ", " ", " ", " ", " ", " ", "M", "e", "t", "h", "o",
      "d", "s", ":", " ">>
    \o methods_str
    \o <<"\n", " ", " ", " ", " ", " ", " ", " ", " ", "A", "p", "p", "l", "i",
      "c", "a", "t", "i", "o", "n", "s", ":", " ">>
    \o applications_str
    \o <<"\n", " ", " ", " ", " ", " ", " ", " ", " ", "\n", " ", " ", " ", " ",
      " ", " ", " ", " ", "O", "u", "t", "p", "u", "t", " ", "f", "o", "r",
      "m", "a", "t", ":", "\n", " ", " ", " ", " ", " ", " ", " ", " ", "1",
      ".", " ", "[", "G", "a", "p", " ", "1", " ", "n", "a", "m", "e", "]",
      "\n", " ", " ", " ", " ", " ", " ", " ", " ", "2", ".", " ", "[", "G",
      "a", "p", " ", "2", " ", "n", "a", "m", "e", "]", "\n", " ", " ", " ",
      " ", " ", " ", " ", " ", "3", ".", " ", "[", "G", "a", "p", " ", "3",
      " ", "n", "a", "m", "e", "]", "\n", " ", " ", " ", " ", " ", " ", " ",
      " ">>

\* Lines 271-287; order is the iteration order of the three sets.
GapPrompt(order) ==
    GapPromptText(join(Take(order.concepts, 10), JoinSeparator),
                  join(Take(order.methods, 10), JoinSeparator),
                  join(Take(order.applications, 10), JoinSeparator))

\* The iteration orders of the four sets of extracted_data.
SetOrders(ed) ==
    {[concepts |-> c, methods |-> m, applications |-> a, domains |-> d] :
        c \in Orders(ed.concepts), m \in Orders(ed.methods),
        a \in Orders(ed.applications), d \in Orders(ed.domains)}

\* Variant: the fallback taken whatever was collected.
NeedsFallback_Always(found) == TRUE

\* Line 269: if not all_gaps
NeedsFallback(found) == found = <<>>

\* Variant: the terms found missing are added to the known concepts.
DetectStructural_RecordsTerms(results, listed) ==
    /\ dg_pc = "called"
    /\ listed \in Orders(find_topic_gaps(topics, extracted_data))
    /\ primary_gaps' = IF graph.kind = "Neo4j"
                       THEN detect_gaps_neo4j(graph, results)
                       ELSE IF graph.kind = "dict"
                            THEN detect_gaps_in_memory(graph)
                            ELSE <<>>
    /\ lc_gaps' = IF lc_graph.kind = "dict"
                  THEN analyze_langchain_graph(lc_graph)
                  ELSE <<>>
    /\ topic_gaps' = listed
    /\ all_gaps' = primary_gaps' \o lc_gaps' \o topic_gaps'
    /\ query_results' = IF graph.kind = "Neo4j" THEN results ELSE <<>>
    /\ extracted_data' =
           [extracted_data EXCEPT !.concepts = @ \cup Range(listed)]
    /\ dg_pc' = "collected"
    /\ UNCHANGED <<graph, lc_graph, topics, llm_gaps, llm_response,
                   llm_prompted, hardcoded, unique_gaps, pc, runs, ndocs,
                   embeddings, neo4j_graph, graph_data, domains,
                   paper_concepts, idx, concepts, methods, applications,
                   run_docs, ret, ideaVars, callVars>>

\* Lines 240-267: the primary graph, the lightweight graph and the topics.
\* results is what the store answers to the five queries, listed the order
\* in which list(missing_concepts) lists the set.
DetectStructural(results, listed) ==
    /\ dg_pc = "called"
    /\ listed \in Orders(find_topic_gaps(topics, extracted_data))
    /\ primary_gaps' = IF graph.kind = "Neo4j"
                       THEN detect_gaps_neo4j(graph, results)
                       ELSE IF graph.kind = "dict"
                            THEN detect_gaps_in_memory(graph)
                            ELSE <<>>
    /\ lc_gaps' = IF lc_graph.kind = "dict"
                  THEN analyze_langchain_graph(lc_graph)
                  ELSE <<>>
    /\ topic_gaps' = listed
    /\ all_gaps' = primary_gaps' \o lc_gaps' \o topic_gaps'
    /\ query_results' = IF graph.kind = "Neo4j" THEN results ELSE <<>>
    /\ dg_pc' = "collected"
    /\ UNCHANGED <<graph, lc_graph, topics, llm_gaps, llm_response,
                   llm_prompted, hardcoded, unique_gaps, extractVars,
                   ideaVars, callVars>>

\* Lines 269-300: the LLM fallback; a response that is no str raises at
\* response.split and the except clause absorbs it.
DetectLlmFallback(order, api, choice) ==
    /\ dg_pc = "collected"
    /\ NeedsFallback(all_gaps)
    /\ LET reply == GroqLLM(GapPrompt(order), api, choice)
           found == IF reply.kind = "str"
                    THEN NumberedGaps(split(reply.text, "\n"))
                    ELSE <<>>
       IN  /\ llm_response' = reply
           /\ llm_gaps' = found
           /\ all_gaps' = all_gaps \o found
    /\ llm_prompted' = TRUE
    /\ dg_pc' = "fallback_done"
    /\ UNCHANGED <<graph, lc_graph, topics, primary_gaps, lc_gaps, topic_gaps,
                   hardcoded, unique_gaps, query_results, extractVars,
                   ideaVars, callVars>>

\* Lines 302-312: deduplicate, fall back to the predefined list, truncate.
DetectReturn ==
    /\ \/ dg_pc = "fallback_done"
       \/ dg_pc = "collected" /\ ~NeedsFallback(all_gaps)
    /\ unique_gaps' = FinalGaps(all_gaps)
    /\ hardcoded' = UsePredefined(all_gaps)
    /\ dg_pc' = "returned"
    /\ UNCHANGED <<graph, lc_graph, topics, primary_gaps, lc_gaps, topic_gaps,
                   llm_gaps, all_gaps, llm_response, llm_prompted,
                   query_results, extractVars, ideaVars, callVars>>

-----------------------------------------------------------------------------
(* Inputs of detect_gaps *)

\* Sequences over S of length at most n.
RECURSIVE SeqsUpTo(_, _)
SeqsUpTo(S, n) ==
    IF n = 0 THEN {<<>>}
    ELSE LET shorter == SeqsUpTo(S, n - 1)
         IN  shorter \cup {Append(s, x) : s \in shorter, x \in S}

\* The documents of the extraction call that precedes detect_gaps.
Batches == SeqsUpTo(DocCases, MaxBatch)

\* Lines 66-213 of extract_knowledge_and_build_graph on the in-memory path,
\* as a function of the documents left to process.
RECURSIVE ExtractDocs(_, _, _)
ExtractDocs(st, batch, ds) ==
    IF batch = <<>> THEN st
    ELSE LET doc == Head(batch)
             paper_id == MetadataId(doc.metadata, st.idx)
             paper_title == MetadataTitle(doc.metadata, st.idx)
             parsed == ParseResponse(doc.response, paper_id, st.ed,
                                     st.paper_concepts)
         IN  ExtractDocs([idx |-> st.idx + 1,
                          ed |-> parsed.ed,
                          paper_concepts |-> parsed.paper_concepts,
                          graph_data |-> InMemoryDoc(st.graph_data, paper_id,
                                             paper_title, parsed, ds)],
                         Tail(batch), ds)

\* The documents processed by a first call with domain "x".
Extracted(batch) ==
    LET ds == <<(<<"x">>)>>
    IN  ExtractDocs(
            [idx |-> 0,
             ed |-> [EmptyExtractedData EXCEPT !.domains = Range(ds)],
             paper_concepts |-> <<>>,
             graph_data |-> AppendNodes(EmptyGraphData,
                                [i \in 1..Len(ds) |->
                                    NamedNode("Domain", ds[i])])],
            batch, ds)

\* Lines 214-273: the graph the call returns, without embeddings.
ReturnedGraph(st, concepts_list) ==
    AppendRelationships(
        AppendRelationships(st.graph_data,
                            RelatedEmits(concepts_list, "None")),
        CoOccurEmits(st.paper_concepts))

\* doc.page_content of the documents.
ContentNear ==
    <<"a", "p", "p", " ", "u", "s", "e", "s", " ", "m", " ", "o", "n", " ",
      "a", ",", " ", "b", " ", "a", "n", "d", " ", "c">>

ContentNone ==
    <<"n", "o", "n", "e">>

PageContents == {ContentNear, ContentNone}

\* The docs argument of build_langchain_graph.
Docs(batch, content) ==
    [i \in 1..Len(batch) |->
        [page_content |-> content, metadata |-> batch[i].metadata]]

\* The topics argument: None, an empty dict, or a dict of topic strings
\* (one value that is no str).
TopicOne ==
    <<"1", "*", "\"", "z", "\"", " ", "+", " ", "1", "*", "\"", "A", "\"">>

TopicTwo ==
    <<"1", "*", "\"", "d", "a", "t", "a", "\"", " ", "+", " ", "2", " ", "*",
      " ", "\"", "B", "\"", " ", "+", " ", "x">>

TopicInputs ==
    {None,
     [kind |-> "dict", items |-> <<>>],
     [kind |-> "dict", items |-> <<[is_str |-> TRUE, topic |-> TopicOne]>>],
     [kind |-> "dict",
      items |-> <<[is_str |-> TRUE, topic |-> TopicOne],
                  [is_str |-> FALSE, topic |-> <<>>],
                  [is_str |-> TRUE, topic |-> TopicTwo]>>]}

\* What graph.query does for one query: it raises, or returns records.
QueryRaises == [raised |-> TRUE, records |-> <<>>]
NoRecords == [raised |-> FALSE, records |-> <<>>]
SomeRecords ==
    [raised |-> FALSE,
     records |-> <<[gap_topic |-> <<"A">>, rel_count |-> 0],
                   [gap_topic |-> <<>>, rel_count |-> 0],
                   [rel_count |-> 1],
                   [gap_topic |-> <<"q">>, rel_count |-> 1],
                   [gap_topic |-> <<"r">>, rel_count |-> 2]>>]

\* What the store does for the five queries of one call.
QueryRuns ==
    {[i \in 1..5 |-> NoRecords],
     [i \in 1..5 |-> SomeRecords],
     [i \in 1..5 |-> IF i = 1 THEN SomeRecords ELSE NoRecords]}
    \cup {[i \in 1..5 |-> IF i = k THEN QueryRaises ELSE SomeRecords] :
             k \in {1, 3}}

\* What the service answers to gap_prompt.
GapReplyThree ==
    <<"1", ".", " ", "g", "\n", " ", "2", ".", " ", " ", "A", " ", "\n", "3",
      ".", " ">>

GapReplySame ==
    <<"1", ".", "A", "\n", "1", ".", " ", "A">>

GapReplySix ==
    <<"1", ".", "a", "\n", "1", ".", "b", "\n", "2", ".", "c", "\n", "2", ".",
      "d", "\n", "3", ".", "e", "\n", "3", ".", "f">>

GapContents ==
    {Str(GapReplyThree), Str(GapReplySame), Str(GapReplySix), None}

\* detect_gaps is called after an extraction call has returned: the locals
\* of that call are gone, the module global keeps what the call left.
InitGaps ==
    /\ \E batch \in Batches, content \in PageContents :
          LET st == Extracted(batch) IN
          \E order \in SetOrders(st.ed) :
              /\ extracted_data = st.ed
              /\ graph \in {None,
                            [kind |-> "Neo4j", is_connected |-> TRUE,
                             nodes |-> {}, relationships |-> <<>>],
                            ReturnedGraph(st, order.concepts)}
              /\ lc_graph \in {None,
                               build_langchain_graph(Docs(batch, content),
                                                     order)}
    /\ topics \in TopicInputs
    /\ pc = "idle"
    /\ runs = 0
    /\ ndocs = 0
    /\ embeddings = "None"
    /\ neo4j_graph = None
    /\ graph_data = EmptyGraphData
    /\ domains = <<>>
    /\ paper_concepts = <<>>
    /\ idx = 0
    /\ concepts = <<>>
    /\ methods = <<>>
    /\ applications = <<>>
    /\ run_docs = <<>>
    /\ ret = "none"
    /\ dg_pc = "called"
    /\ primary_gaps = <<>>
    /\ lc_gaps = <<>>
    /\ topic_gaps = <<>>
    /\ llm_gaps = <<>>
    /\ all_gaps = <<>>
    /\ llm_response = None
    /\ llm_prompted = FALSE
    /\ hardcoded = FALSE
    /\ unique_gaps = <<>>
    /\ query_results = <<>>
    /\ IdeasIdle
    /\ CallsIdle

\* The queries run only on a store handle (lines 242-244).
StoreAnswers(g) == IF g.kind = "Neo4j" THEN QueryRuns ELSE {<<>>}

NextGaps ==
    \/ \E results \in StoreAnswers(graph),
          listed \in Orders(find_topic_gaps(topics, extracted_data)) :
          DetectStructural(results, listed)
    \/ \E order \in SetOrders(extracted_data),
          api \in ApiOutcomes(GapContents), choice \in TemplateChoices :
          DetectLlmFallback(order, api, choice)
    \/ DetectReturn

SpecGaps == InitGaps /\ [][NextGaps]_vars

-----------------------------------------------------------------------------
(* Properties of detect_gaps *)

\* The concatenation [primary-graph gaps, lightweight-graph gaps, topic
\* gaps, LLM-fallback gaps] of one call.
Collected == primary_gaps \o lc_gaps \o topic_gaps \o llm_gaps

FirstIndex(l, x) ==
    CHOOSE i \in 1..Len(l) : l[i] = x /\ \A j \in 1..(i - 1) : l[j] # x

\* C1: the list detect_gaps returns has at most 5 elements, holds no string
\* twice, and lists strings of the concatenation [primary-graph gaps,
\* lightweight-graph gaps, topic gaps, LLM-fallback gaps] in the order of
\* their first occurrence in it.
C1_AtMostFiveDistinctInOrder ==
    dg_pc = "returned" =>
        /\ Len(unique_gaps) <= 5
        /\ \A i, j \in 1..Len(unique_gaps) :
               i # j => unique_gaps[i] # unique_gaps[j]
        /\ Collected # <<>> =>
               /\ \A i \in 1..Len(unique_gaps) :
                      unique_gaps[i] \in Range(Collected)
               /\ \A i, j \in 1..Len(unique_gaps) :
                      i < j => FirstIndex(Collected, unique_gaps[i])
                                   < FirstIndex(Collected, unique_gaps[j])

\* A call whose strategies yield repeated strings and more than five
\* distinct ones.
C1_Witness ==
    /\ dg_pc = "returned"
    /\ Len(unique_gaps) = 5
    /\ Cardinality(Range(Collected)) > 5
    /\ Len(Collected) > Cardinality(Range(Collected))
    /\ lc_gaps # <<>> /\ topic_gaps # <<>> /\ primary_gaps # <<>>

\* C2: detect_gaps never returns an empty list; when no strategy and no
\* line of the LLM reply yields a gap (the LLM call raising or answering
\* unparseable text included) it returns the predefined three items in
\* their order.
C2_NeverEmpty ==
    dg_pc = "returned" =>
        /\ unique_gaps # <<>>
        /\ Collected = <<>> => unique_gaps = PredefinedGaps

\* The fallback raised (the service answered no text) and the predefined
\* list was returned.
C2_Witness ==
    /\ dg_pc = "returned"
    /\ llm_prompted
    /\ llm_response = None
    /\ unique_gaps = PredefinedGaps

\* C3: the LLM is prompted only when the primary-graph, lightweight-graph
\* and topic strategies together yielded no gap; the predefined list is
\* returned only when the LLM fallback was attempted and yielded no gap;
\* with a gap from an earlier strategy neither happens.
C3_FallbackOrder ==
    LET structural == primary_gaps \o lc_gaps \o topic_gaps IN
    /\ llm_prompted => structural = <<>>
    /\ hardcoded => llm_prompted /\ llm_gaps = <<>>
    /\ structural # <<>> => ~llm_prompted /\ ~hardcoded
    /\ (dg_pc = "returned" /\ ~hardcoded) => Collected # <<>>

\* Both fallbacks fired, one after the other: the LLM answered a text
\* without numbered lines, then the predefined list was returned.
C3_Witness ==
    /\ dg_pc = "returned"
    /\ llm_prompted
    /\ llm_response = Str(GenericFallback)
    /\ hardcoded
    /\ unique_gaps = PredefinedGaps

-----------------------------------------------------------------------------
(* idea_generation.py: generate_research_ideas *)

\* Lines 9-17
IdeaPrompt(domain_arg, gap) ==
    <<"G", "e", "n", "e", "r", "a", "t", "e", " ", "a", " ", "n", "o", "v",
      "e", "l", " ", "r", "e", "s", "e", "a", "r", "c", "h", " ", "i", "d",
      "e", "a", " ", "i", "n", " ", "t", "h", "e", " ", "d", "o", "m", "a",
      "i", "n", " ", "o", "f", " ">>
    \o domain_arg
    \o <<" ", "u", "s", "i", "n", "g", " ", "t", "h", "e", " ", "c", "o", "n",
      "c", "e", "p", "t", ":", " ">>
    \o gap
    \o <<".", "\n", " ", " ", " ", " ", " ", " ", " ", " ", "I", "n", "c", "l",
      "u", "d", "e", ":", "\n", " ", " ", " ", " ", " ", " ", " ", " ", "1",
      ".", " ", "A", " ", "c", "l", "e", "a", "r", " ", "t", "i", "t", "l",
      "e", " ", "f", "o", "r", " ", "t", "h", "e", " ", "r", "e", "s", "e",
      "a", "r", "c", "h", "\n", " ", " ", " ", " ", " ", " ", " ", " ", "2",
      ".", " ", "B", "r", "i", "e", "f", " ", "p", "r", "o", "b", "l", "e",
      "m", " ", "s", "t", "a", "t", "e", "m", "e", "n", "t", "\n", " ", " ",
      " ", " ", " ", " ", " ", " ", "3", ".", " ", "P", "r", "o", "p", "o",
      "s", "e", "d", " ", "m", "e", "t", "h", "o", "d", "o", "l", "o", "g",
      "y", "\n", " ", " ", " ", " ", " ", " ", " ", " ", "4", ".", " ", "E",
      "x", "p", "e", "c", "t", "e", "d", " ", "i", "m", "p", "a", "c", "t",
      "\n", " ", " ", " ", " ", " ", " ", " ", " ", "\n", " ", " ", " ", " ",
      " ", " ", " ", " ", "B", "e", " ", "s", "p", "e", "c", "i", "f", "i",
      "c", " ", "a", "n", "d", " ", "f", "o", "c", "u", "s", "e", "d", ".",
      "\n", " ", " ", " ", " ", " ", " ", " ", " ">>

\* Variant: a gap already answered gets no second record.
AppendIdea_OncePerGap(records, gap, idea) ==
    IF \E i \in 1..Len(records) : records[i].gap = gap THEN records
    ELSE Append(records, [gap |-> gap, idea |-> idea])

\* Line 21: ideas.append({"gap": gap, "idea": idea})
AppendIdea(records, gap, idea) ==
    Append(records, [gap |-> gap, idea |-> idea])

\* The gaps and domain arguments.
GapNames == {<<"X">>, <<"Y">>}
GapLists == SeqsUpTo(GapNames, MaxGaps)
DomainNames == {<<"b", "i", "o">>, <<"N", "L", "P", " ", "l", "a", "w">>}

\* What the service answers to an idea prompt: a text or the empty text.
IdeaContents == {Str(<<"T">>), Str(<<>>)}

\* Lines 8-21: one iteration of the loop over gaps.
GenerateIdea(api, choice) ==
    /\ ig_pc = "loop"
    /\ ig_i < Len(gaps)
    /\ LET gap == gaps[ig_i + 1]
           idea == GroqLLM(IdeaPrompt(domain, gap), api, choice)
       IN  ideas' = AppendIdea(ideas, gap, idea)
    /\ ig_i' = ig_i + 1
    /\ UNCHANGED <<gaps, domain, ig_pc, extractVars, gapVars, callVars>>

\* Line 22, after the last gap.
ReturnIdeas ==
    /\ ig_pc = "loop"
    /\ ig_i = Len(gaps)
    /\ ig_pc' = "returned"
    /\ UNCHANGED <<gaps, domain, ideas, ig_i, extractVars, gapVars, callVars>>

InitIdeas ==
    /\ gaps \in GapLists
    /\ domain \in DomainNames
    /\ ideas = <<>>
    /\ ig_i = 0
    /\ ig_pc = "loop"
    /\ extracted_data = EmptyExtractedData
    /\ pc = "idle"
    /\ runs = 0
    /\ ndocs = 0
    /\ embeddings = "None"
    /\ neo4j_graph = None
    /\ graph_data = EmptyGraphData
    /\ domains = <<>>
    /\ paper_concepts = <<>>
    /\ idx = 0
    /\ concepts = <<>>
    /\ methods = <<>>
    /\ applications = <<>>
    /\ run_docs = <<>>
    /\ ret = "none"
    /\ GapsIdle
    /\ CallsIdle

NextIdeas ==
    \/ \E api \in ApiOutcomes(IdeaContents), choice \in TemplateChoices :
          GenerateIdea(api, choice)
    \/ ReturnIdeas

SpecIdeas == InitIdeas /\ [][NextIdeas]_vars

-----------------------------------------------------------------------------
(* Properties of generate_research_ideas *)

\* C10: generate_research_ideas returns one record per element of gaps, in
\* the order of gaps, record i carrying gaps[i]; equal gaps keep their own
\* records, and a gap whose LLM call failed or answered the empty text has
\* its record.
C10_OneRecordPerGap ==
    ig_pc = "returned" =>
        /\ Len(ideas) = Len(gaps)
        /\ \A i \in 1..Len(gaps) : ideas[i].gap = gaps[i]

\* Twice the same gap: the first call answered the empty text, the second
\* failed and the client gave its fallback text.
C10_Witness ==
    /\ ig_pc = "returned"
    /\ Len(gaps) = 2
    /\ gaps[1] = gaps[2]
    /\ Len(ideas) = 2
    /\ ideas[1].idea = Str(<<>>)
    /\ ideas[2].idea = Str(fallback_response(IdeaPrompt(domain, gaps[2]), 1))

-----------------------------------------------------------------------------
(* calculate_similarity called on its own, once in each argument order *)

SimilarityTexts ==
    {<<>>, <<"a">>, <<"A">>, <<"b">>, <<"c">>, <<"a", " ", "b">>,
     <<"b", " ", "a">>, <<"a", " ", " ", "B", " ">>}

\* calculate_similarity(concept1, concept2, embeddings)
CalculateForward ==
    /\ similarity_call.pc = "called"
    /\ similarity_call.forward = None
    /\ similarity_call' =
           [similarity_call EXCEPT !.forward =
               calculate_similarity(similarity_call.concept1,
                                    similarity_call.concept2,
                                    similarity_call.provider)]
    /\ UNCHANGED <<extractVars, gapVars, ideaVars, truncate_call, lc_call>>

\* calculate_similarity(concept2, concept1, embeddings)
CalculateBackward ==
    /\ similarity_call.pc = "called"
    /\ similarity_call.backward = None
    /\ similarity_call' =
           [similarity_call EXCEPT !.backward =
               calculate_similarity(similarity_call.concept2,
                                    similarity_call.concept1,
                                    similarity_call.provider)]
    /\ UNCHANGED <<extractVars, gapVars, ideaVars, truncate_call, lc_call>>

InitSimilarity ==
    /\ \E concept1 \in SimilarityTexts, concept2 \in SimilarityTexts,
          provider \in EmbeddingProviders :
          similarity_call = [pc |-> "called", concept1 |-> concept1,
                             concept2 |-> concept2, provider |-> provider,
                             forward |-> None, backward |-> None]
    /\ truncate_call = [pc |-> "idle"]
    /\ lc_call = [pc |-> "idle"]
    /\ ExtractIdle
    /\ GapsIdle
    /\ IdeasIdle

NextSimilarity == CalculateForward \/ CalculateBackward

SpecSimilarity == InitSimilarity /\ [][NextSimilarity]_vars

\* C11: calculate_similarity is symmetric in its two concepts, in lexical
\* mode and in embedding mode with a provider that answers every text with
\* a fixed vector: both argument orders give the same score.
C11_Symmetric ==
    /\ similarity_call.pc = "called"
    /\ similarity_call.provider \in {"None", "vectors"}
    /\ similarity_call.forward # None
    /\ similarity_call.backward # None
    => similarity_call.forward = similarity_call.backward

\* Both orders computed for two concepts with word sets of different sizes
\* that share a word.
C11_Witness ==
    /\ similarity_call.pc = "called"
    /\ similarity_call.provider = "None"
    /\ similarity_call.concept1 = <<"a">>
    /\ similarity_call.concept2 = <<"b", " ", "a">>
    /\ similarity_call.forward = [num |-> 1, den |-> 2]
    /\ similarity_call.backward = [num |-> 1, den |-> 2]

\* The provider fails on the two concepts of the call: an embed_query call
\* raises or the two vectors do not fit the cosine.
ProviderFails(call) ==
    /\ call.provider # "None"
    /\ \/ embed_query(call.provider, call.concept1).raised
       \/ embed_query(call.provider, call.concept2).raised
       \/ Len(embed_query(call.provider, call.concept1).vector)
              # Len(embed_query(call.provider, call.concept2).vector)

\* |words1 & words2| / |words1 | words2| of the lower-cased word sets, 0 when
\* one of them is empty.
Jaccard(concept1, concept2) ==
    LET words1 == Range(split_ws(lower(concept1)))
        words2 == Range(split_ws(lower(concept2)))
    IN  IF words1 = {} \/ words2 = {}
        THEN [num |-> 0, den |-> 1]
        ELSE [num |-> Cardinality(words1 \cap words2),
              den |-> Cardinality(words1 \cup words2)]

\* C12: when a provider is supplied and an embed_query call or the cosine
\* computation fails, calculate_similarity returns the lexical Jaccard
\* score of the two concepts.
C12_FallsBackToLexical ==
    /\ similarity_call.pc = "called"
    /\ ProviderFails(similarity_call)
    /\ similarity_call.forward # None
    => similarity_call.forward =
           Jaccard(similarity_call.concept1, similarity_call.concept2)

\* The second embed_query call raised and the lexical score is not 0.
C12_Witness ==
    /\ similarity_call.pc = "called"
    /\ similarity_call.provider = "flaky"
    /\ similarity_call.concept1 = <<"a">>
    /\ similarity_call.concept2 = <<"b", " ", "a">>
    /\ similarity_call.forward = [num |-> 1, den |-> 2]

-----------------------------------------------------------------------------
(* The document loop with the LLM client: lines 81-97 build the prompt and *)
(* call GroqLLM, whose reply is parsed.                                    *)

\* Lines 82-83
TruncateAbove == 5000
KeptChars == 4800

Ellipsis ==
    <<".", ".", ".">>

\* Variant: every content longer than the kept part is cut.
truncate_AboveKept(page_content) ==
    IF Len(page_content) > KeptChars
    THEN SubSeq(page_content, 1, KeptChars) \o Ellipsis
    ELSE page_content

\* Lines 81-83: content = doc.page_content, cut when it is too long.
truncate(page_content) ==
    IF Len(page_content) > TruncateAbove
    THEN SubSeq(page_content, 1, KeptChars) \o Ellipsis
    ELSE page_content

\* Lines 86-95: the text before and after {content}.
PromptHead ==
    <<"\n", " ", " ", " ", " ", " ", " ", " ", " ", "E", "x", "t", "r", "a",
      "c", "t", " ", "k", "e", "y", " ", "c", "o", "n", "c", "e", "p", "t",
      "s", ",", " ", "m", "e", "t", "h", "o", "d", "s", ",", " ", "a", "n",
      "d", " ", "a", "p", "p", "l", "i", "c", "a", "t", "i", "o", "n", "s",
      " ", "f", "r", "o", "m", " ", "t", "h", "i", "s", " ", "a", "b", "s",
      "t", "r", "a", "c", "t", ":", "\n", "\n", " ", " ", " ", " ", " ", " ",
      " ", " ">>

PromptTail ==
    <<"\n", "\n", " ", " ", " ", " ", " ", " ", " ", " ", "O", "u", "t", "p",
      "u", "t", " ", "f", "o", "r", "m", "a", "t", ":", "\n", " ", " ", " ",
      " ", " ", " ", " ", " ", "-", " ", "C", "o", "n", "c", "e", "p", "t",
      "s", ":", " ", "[", "l", "i", "s", "t", " ", "o", "f", " ", "k", "e",
      "y", " ", "c", "o", "n", "c", "e", "p", "t", "s", " ", "s", "e", "p",
      "a", "r", "a", "t", "e", "d", " ", "b", "y", " ", "c", "o", "m", "m",
      "a", "s", "]", "\n", " ", " ", " ", " ", " ", " ", " ", " ", "-", " ",
      "M", "e", "t", "h", "o", "d", "s", ":", " ", "[", "l", "i", "s", "t",
      " ", "o", "f", " ", "m", "e", "t", "h", "o", "d", "o", "l", "o", "g",
      "i", "e", "s", " ", "s", "e", "p", "a", "r", "a", "t", "e", "d", " ",
      "b", "y", " ", "c", "o", "m", "m", "a", "s", "]", "\n", " ", " ", " ",
      " ", " ", " ", " ", " ", "-", " ", "A", "p", "p", "l", "i", "c", "a",
      "t", "i", "o", "n", "s", ":", " ", "[", "l", "i", "s", "t", " ", "o",
      "f", " ", "a", "p", "p", "l", "i", "c", "a", "t", "i", "o", "n", "s",
      " ", "s", "e", "p", "a", "r", "a", "t", "e", "d", " ", "b", "y", " ",
      "c", "o", "m", "m", "a", "s", "]", "\n", " ", " ", " ", " ", " ", " ",
      " ", " ">>

llm_prompt(content) == PromptHead \o content \o PromptTail

MaxLlmDocs == 1

\* The documents of a call: with or without metadata, two abstracts.
LlmDocs ==
    {[metadata |-> m, page_content |-> c] :
        m \in DocMetadata, c \in PageContents}

\* What the service answers when it answers: a text without any list, or
\* a null content.
ExtractContents == {Str(ReplyNone), None}

\* Lines 74-213 with the client: one iteration of the document loop.  A
\* reply that is no str raises at response.split, which ends the call.
ExtractDoc(doc, api, choice) ==
    /\ idx < MaxLlmDocs
    /\ LET reply == GroqLLM(llm_prompt(truncate(doc.page_content)), api, choice)
       IN  /\ reply.kind = "str"
           /\ ProcessDoc(doc.metadata, reply.text)

\* The first call of extract_knowledge_and_build_graph of the process.
FirstExtractStart(domain_input, store, provider) ==
    /\ runs = 0
    /\ ExtractStart(domain_input, store, provider)

NextLlm ==
    \/ \E domain_input \in DomainInputs, store \in StoreHandles,
          provider \in ExtractEmbeddings :
          FirstExtractStart(domain_input, store, provider)
    \/ \E doc \in LlmDocs, api \in ApiOutcomes(ExtractContents),
          choice \in TemplateChoices :
          ExtractDoc(doc, api, choice)
    \/ RelatedPass
    \/ CoOccurPass

SpecLlm == Init /\ [][NextLlm]_vars

\* What the client returns for an extraction prompt when the call fails.
FailedReplies ==
    {fallback_response(llm_prompt(<<>>), choice) : choice \in TemplateChoices}

\* The graph of the running call has a node of this label and name.
HasNode(label, name) ==
    \/ NamedNode(label, name) \in Range(graph_data.nodes)
    \/ /\ neo4j_graph.kind = "Neo4j"
       /\ [label |-> label, key |-> name] \in neo4j_graph.nodes

\* C13 as stated: a document whose LLM call failed has an empty parse
\* result in all three categories.
C13_FailureParsesEmpty ==
    \A i \in 1..Len(run_docs) :
        run_docs[i].response \in FailedReplies =>
            /\ run_docs[i].concepts = <<>>
            /\ run_docs[i].methods = <<>>
            /\ run_docs[i].applications = <<>>

\* C13: a document whose LLM call failed is parsed from the client's canned
\* reply: 4 concepts, 3 methods and 3 applications of the client's fixed
\* lists, which are added to the accumulated sets and to the graph.
C13_FailureParsesSample ==
    \A i \in 1..Len(run_docs) :
        run_docs[i].response \in FailedReplies =>
            /\ Len(run_docs[i].concepts) = 4
            /\ Len(run_docs[i].methods) = 3
            /\ Len(run_docs[i].applications) = 3
            /\ Range(run_docs[i].concepts) \subseteq Range(FallbackConcepts)
            /\ Range(run_docs[i].methods) \subseteq Range(FallbackMethods)
            /\ Range(run_docs[i].applications)
                   \subseteq Range(FallbackApplications)
            /\ Range(run_docs[i].concepts) \subseteq extracted_data.concepts
            /\ Range(run_docs[i].methods) \subseteq extracted_data.methods
            /\ Range(run_docs[i].applications)
                   \subseteq extracted_data.applications
            /\ \A c \in Range(run_docs[i].concepts) : HasNode("Concept", c)
            /\ \A m \in Range(run_docs[i].methods) : HasNode("Method", m)
            /\ \A a \in Range(run_docs[i].applications) :
                   HasNode("Application", a)

\* A call returned whose only document had a failed LLM call.
C13_Witness ==
    /\ pc = "returned"
    /\ Len(run_docs) = 1
    /\ run_docs[1].response = ExtractionFallback(1)
    /\ Len(run_docs[1].concepts) = 4

-----------------------------------------------------------------------------
(* A call whose store handle changes its is_connected while the call runs *)

\* The store gains or loses its connection; the handle is the object the
\* call reads is_connected from at lines 69, 77, 113, 214, 244 and 258.
ConnectionChange ==
    /\ pc \in {"docs", "cooccur"}
    /\ neo4j_graph.kind = "Neo4j"
    /\ neo4j_graph' = [neo4j_graph EXCEPT !.is_connected = ~@]
    /\ UNCHANGED <<extracted_data, pc, runs, ndocs, embeddings, graph_data,
                   domains, paper_concepts, idx, concepts, methods,
                   applications, run_docs, ret, gapVars, ideaVars, callVars>>

NextStore ==
    \/ \E domain_input \in DomainInputs, store \in StoreHandles,
          provider \in ExtractEmbeddings :
          FirstExtractStart(domain_input, store, provider)
    \/ \E doc \in DocCases : ProcessDoc(doc.metadata, doc.response)
    \/ RelatedPass
    \/ CoOccurPass
    \/ ConnectionChange

SpecStore == Init /\ [][NextStore]_vars

\* The store holds something of this call.
StoreHolds ==
    /\ neo4j_graph.kind = "Neo4j"
    /\ neo4j_graph.nodes # {} \/ neo4j_graph.relationships # <<>>

\* The in-memory graph holds something of this call.
MemoryHolds == graph_data # EmptyGraphData

\* C14: the choice between the store and the in-memory graph is made once
\* per call: whatever values is_connected takes, every node and
\* relationship of the call goes to one representation, and the graph the
\* call returns is that one.
C14_OneRepresentation ==
    /\ ~(StoreHolds /\ MemoryHolds)
    /\ pc = "returned" /\ ret = "neo4j_graph" => ~MemoryHolds
    /\ pc = "returned" /\ ret = "graph_data" => ~StoreHolds

-----------------------------------------------------------------------------
(* Properties of detect_gaps with a store handle whose query raises *)

\* One of the five queries of this call raised.
QueryFailed ==
    /\ graph.kind = "Neo4j"
    /\ \E i \in 1..Len(query_results) : query_results[i].raised

\* C15: when one of the five queries of detect_gaps_neo4j fails, the
\* store-backed strategy contributes no gap, the gaps of the queries that
\* ran before included, and the lightweight-graph and topic strategies of
\* detect_gaps still run and contribute theirs.
C15_FailedQueryContributesNothing ==
    dg_pc # "called" /\ QueryFailed =>
        /\ primary_gaps = <<>>
        /\ lc_gaps = IF lc_graph.kind = "dict"
                     THEN analyze_langchain_graph(lc_graph)
                     ELSE <<>>
        /\ Range(topic_gaps) = find_topic_gaps(topics, extracted_data)
        /\ SubSeq(all_gaps, 1, Len(lc_gaps) + Len(topic_gaps))
               = lc_gaps \o topic_gaps

\* The third query raised after two that returned records with a gap
\* topic; the call returned the gaps of the two other strategies.
C15_Witness ==
    /\ dg_pc = "returned"
    /\ QueryFailed
    /\ query_results[3].raised
    /\ QueryGaps(SubSeq(query_results, 1, 2)) # <<>>
    /\ lc_gaps # <<>>
    /\ topic_gaps # <<>>
    /\ unique_gaps = Take(fromkeys(lc_gaps \o topic_gaps), 5)

-----------------------------------------------------------------------------
(* Lines 81-83 on their own: the content of one document is cut *)

\* Characters beyond TruncateAbove in the longest page_content.
MaxOver == 2

\* len(doc.page_content): short, around the kept part, around the limit.
ContentLengths ==
    (0..2) \cup ((KeptChars - 2)..(KeptChars + 2))
    \cup ((TruncateAbove - 2)..(TruncateAbove + MaxOver))

\* doc.page_content: one character repeated.
ContentFills == {"a", "b", " ", ".", "\n"}

TruncateContent ==
    /\ truncate_call.pc = "called"
    /\ truncate_call' =
           [truncate_call EXCEPT !.pc = "cut",
                                 !.content = truncate(truncate_call.page_content)]
    /\ UNCHANGED <<extractVars, gapVars, ideaVars, similarity_call, lc_call>>

InitTruncate ==
    /\ \E n \in ContentLengths, fill \in ContentFills :
          truncate_call = [pc |-> "called",
                           page_content |-> [i \in 1..n |-> fill],
                           content |-> <<>>]
    /\ similarity_call = [pc |-> "idle"]
    /\ lc_call = [pc |-> "idle"]
    /\ ExtractIdle
    /\ GapsIdle
    /\ IdeasIdle

NextTruncate == TruncateContent

SpecTruncate == InitTruncate /\ [][NextTruncate]_vars

\* The characters of page_content that content holds.
ContentChars ==
    IF truncate_call.content = truncate_call.page_content
    THEN Len(truncate_call.content)
    ELSE Len(truncate_call.content) - 3

\* content is page_content, or its first characters followed by "...".
WholeOrCut ==
    \/ truncate_call.content = truncate_call.page_content
    \/ truncate_call.content
           = SubSeq(truncate_call.page_content, 1, ContentChars)
             \o <<".", ".", ".">>

\* C16 as stated: the text placed in the prompt holds at most 4800
\* characters of the document's content, followed by "..." when cut.
C16_AtMostKept ==
    truncate_call.pc = "cut" => WholeOrCut /\ ContentChars <= 4800

\* C16: a content of more than 5000 characters is cut to its first 4800
\* followed by "...", a content of at most 5000 characters is placed whole;
\* no document contributes more than 5000 characters of content.
C16_AtMostLimit ==
    truncate_call.pc = "cut" =>
        /\ WholeOrCut
        /\ ContentChars <= 5000
        /\ Len(truncate_call.page_content) > 5000 => ContentChars = 4800
        /\ Len(truncate_call.page_content) <= 5000
               => truncate_call.content = truncate_call.page_content

\* A content of 5001 characters was cut to 4800 and the ellipsis.
C16_Witness ==
    /\ truncate_call.pc = "cut"
    /\ Len(truncate_call.page_content) = 5001
    /\ Len(truncate_call.content) = 4803
    /\ SubSeq(truncate_call.content, 4801, 4803) = <<".", ".", ".">>

-----------------------------------------------------------------------------
(* Properties of the relationships of one call *)

\* The relationships the running call has emitted, to either graph.
Emitted ==
    graph_data.relationships
    \o (IF neo4j_graph.kind = "Neo4j" THEN neo4j_graph.relationships
        ELSE <<>>)

\* Some document of the call has source in the one list and target in the
\* other list of its parsed triple.
SameDocument(r, source_list, target_list) ==
    \E i \in 1..Len(run_docs) :
        /\ r.source \in Range(run_docs[i][source_list])
        /\ r.target \in Range(run_docs[i][target_list])

\* C17: every APPLIES, USES and IMPLEMENTED_BY relationship connects two
\* strings of the parsed triple of one and the same document.
C17_WithinOneDocument ==
    \A k \in 1..Len(Emitted) :
        LET r == Emitted[k] IN
        /\ r.type = "APPLIES" => SameDocument(r, "applications", "concepts")
        /\ r.type = "USES" => SameDocument(r, "applications", "methods")
        /\ r.type = "IMPLEMENTED_BY" => SameDocument(r, "concepts", "methods")

\* Two documents with different concepts, the second with an application:
\* the application applies the concepts of its own document.
C17_Witness ==
    /\ Len(run_docs) = 2
    /\ run_docs[1].concepts = <<<<"a">>, <<"A">>>>
    /\ run_docs[2].concepts = <<<<"A">>, <<"B">>>>
    /\ run_docs[2].applications = <<<<"A", "p", "p">>>>
    /\ \E k \in 1..Len(Emitted) :
          /\ Emitted[k].type = "APPLIES"
          /\ Emitted[k].source = <<"A", "p", "p">>
          /\ Emitted[k].target = <<"B">>

\* The RELATED_TO relationships of the in-memory graph between a and b, in
\* either direction.
RelatedBetween(a, b) ==
    {k \in 1..Len(graph_data.relationships) :
        /\ graph_data.relationships[k].type = "RELATED_TO"
        /\ {graph_data.relationships[k].source,
            graph_data.relationships[k].target} = {a, b}}

\* The RELATED_TO pass of an in-memory call is over.
RelatedPassDone == InMemoryRun /\ pc \in {"cooccur", "returned"}

\* C18: after all documents, the in-memory graph holds a RELATED_TO
\* relationship for an unordered pair of distinct accumulated concepts
\* exactly when their similarity is above 0.6, one per pair, carrying the
\* similarity; a pair at 0.6 or below has none.
C18_RelatedIffAboveThreshold ==
    RelatedPassDone =>
        \A a \in extracted_data.concepts, b \in extracted_data.concepts :
            a # b =>
                LET score == calculate_similarity(a, b, embeddings) IN
                /\ Cardinality(RelatedBetween(a, b))
                       = IF 5 * score.num > 3 * score.den THEN 1 ELSE 0
                /\ \A k \in RelatedBetween(a, b) :
                       LET carried ==
                               graph_data.relationships[k].properties.similarity
                       IN  carried.num * score.den = score.num * carried.den

\* Concepts a, A and B under the fixed-vector provider: a and A score 1
\* and have their relationship, A and B score 0.6 exactly and have none.
C18_Witness ==
    /\ RelatedPassDone
    /\ embeddings = "vectors"
    /\ extracted_data.concepts = {<<"a">>, <<"A">>, <<"B">>}
    /\ Cardinality(RelatedBetween(<<"a">>, <<"A">>)) = 1
    /\ calculate_similarity(<<"A">>, <<"B">>, "vectors")
           = [num |-> 15, den |-> 25]
    /\ RelatedBetween(<<"A">>, <<"B">>) = {}

\* The CO_OCCURS_WITH relationships of the in-memory graph between a and
\* b, in either direction.
CoOccursBetween(a, b) ==
    {k \in 1..Len(graph_data.relationships) :
        /\ graph_data.relationships[k].type = "CO_OCCURS_WITH"
        /\ {graph_data.relationships[k].source,
            graph_data.relationships[k].target} = {a, b}}

\* C19: every unordered pair of concepts that appear together in the
\* parsed concept list of a document of the call, and that RELATED_TO does
\* not connect, has exactly one CO_OCCURS_WITH relationship in the graph
\* the call returns.
C19_OneCoOccurrencePerPair ==
    InMemoryRun /\ pc = "returned" =>
        \A i \in 1..Len(run_docs) :
            \A a \in Range(run_docs[i].concepts),
               b \in Range(run_docs[i].concepts) :
                a # b /\ RelatedBetween(a, b) = {}
                    => Cardinality(CoOccursBetween(a, b)) = 1

-----------------------------------------------------------------------------
(* build_langchain_graph called on its own *)

MaxLcDocs == 2

\* n characters that belong to no name.
Filler(n) == [i \in 1..n |-> "."]

\* doc.page_content: the first a and the first m are 100 apart and a
\* second a follows the m; A and M 99 apart; a and m 100 apart.
ContentLater == <<"a">> \o Filler(99) \o <<"m", "a", "c">>
ContentInside == <<"A">> \o Filler(98) \o <<"M">>
ContentOutside == <<"a">> \o Filler(99) \o <<"m">>

LcContents ==
    {ContentLater, ContentInside, ContentOutside, ContentNear, ContentNone}

\* The docs argument: up to MaxLcDocs documents without metadata.
LcDocs ==
    {[i \in 1..Len(l) |->
         [page_content |-> l[i],
          metadata |-> [given |-> FALSE, id |-> <<>>, title |-> <<>>]]] :
        l \in SeqsUpTo(LcContents, MaxLcDocs)}

\* The extracted_data argument.
LcData ==
    {[concepts |-> {<<"a">>}, methods |-> {<<"m">>},
      applications |-> {<<"c">>}, domains |-> {<<"x">>}],
     [concepts |-> {<<"A">>, <<"b">>}, methods |-> {<<"m">>},
      applications |-> {}, domains |-> {}]}

\* Lines 275-343; order is the iteration order of the four sets.
BuildLangchainGraph(order) ==
    /\ lc_call.pc = "called"
    /\ lc_call' = [lc_call EXCEPT
                      !.pc = "returned",
                      !.knowledge_graph =
                          build_langchain_graph(lc_call.docs, order)]
    /\ UNCHANGED <<extractVars, gapVars, ideaVars, similarity_call,
                   truncate_call>>

InitLc ==
    /\ extracted_data \in LcData
    /\ \E docs \in LcDocs :
          lc_call = [pc |-> "called", docs |-> docs, knowledge_graph |-> None]
    /\ pc = "idle"
    /\ runs = 0
    /\ ndocs = 0
    /\ embeddings = "None"
    /\ neo4j_graph = None
    /\ graph_data = EmptyGraphData
    /\ domains = <<>>
    /\ paper_concepts = <<>>
    /\ idx = 0
    /\ concepts = <<>>
    /\ methods = <<>>
    /\ applications = <<>>
    /\ run_docs = <<>>
    /\ ret = "none"
    /\ similarity_call = [pc |-> "idle"]
    /\ truncate_call = [pc |-> "idle"]
    /\ GapsIdle
    /\ IdeasIdle

NextLc == \E order \in SetOrders(extracted_data) : BuildLangchainGraph(order)

SpecLc == InitLc /\ [][NextLc]_vars

\* The start positions of the occurrences of sub in s.
Positions(s, sub) ==
    {i \in 0..(Len(s) - Len(sub)) : SubSeq(s, i + 1, i + Len(sub)) = sub}

\* Some document holds, case-insensitively, an occurrence of x and an
\* occurrence of y whose start positions are less than 100 apart.
OccurNear(x, y, docs) ==
    \E i \in 1..Len(docs) :
        LET text == lower(docs[i].page_content) IN
        \E p \in Positions(text, lower(x)), q \in Positions(text, lower(y)) :
            abs(p - q) < 100

\* The returned graph has the edge of this type between the two names.
HasEdge(source_prefix, source, target, type) ==
    \E k \in 1..Len(lc_call.knowledge_graph.edges) :
        /\ lc_call.knowledge_graph.edges[k].type = type
        /\ lc_call.knowledge_graph.edges[k].source = source_prefix \o source
        /\ lc_call.knowledge_graph.edges[k].target = MethodIdPrefix \o target

\* C20: build_langchain_graph adds IMPLEMENTED_BY for a concept and a
\* method, and USES for an application and a method, exactly when some
\* document's text holds, case-insensitively, an occurrence of each whose
\* start positions are less than 100 characters apart.
C20_EdgeIffOccurrencesNear ==
    lc_call.pc = "returned" =>
        /\ \A c \in extracted_data.concepts, m \in extracted_data.methods :
               HasEdge(ConceptIdPrefix, c, m, "IMPLEMENTED_BY")
                   <=> OccurNear(c, m, lc_call.docs)
        /\ \A a \in extracted_data.applications,
              m \in extracted_data.methods :
               HasEdge(AppIdPrefix, a, m, "USES")
                   <=> OccurNear(a, m, lc_call.docs)

-----------------------------------------------------------------------------
(* detect_gaps on the in-memory graph an extraction call returned *)

MaxMemoryDocs == 2

\* A reply whose concept carries the name of the research domain.
ReplyOwnDomain ==
    <<"-", " ", "C", "o", "n", "c", "e", "p", "t", "s", ":", " ", "x">>

\* The documents of the extraction call, each with the reply the LLM gives.
MemoryCases ==
    {[metadata |-> m, response |-> r] :
        m \in {x \in DocMetadata : ~x.given},
        r \in {ReplySpec, ReplyDup, ReplyTwo, ReplyOwnDomain}}
    \cup {[metadata |-> m, response |-> ReplySpec] :
             m \in {x \in DocMetadata : x.given}}

MemoryBatches == SeqsUpTo(MemoryCases, MaxMemoryDocs)

\* detect_gaps(graph) on the dict extract_knowledge_and_build_graph returned.
InitMemory ==
    /\ \E batch \in MemoryBatches :
          LET st == Extracted(batch) IN
          \E order \in SetOrders(st.ed) :
              /\ extracted_data = st.ed
              /\ graph = ReturnedGraph(st, order.concepts)
    /\ lc_graph = None
    /\ topics = None
    /\ pc = "idle"
    /\ runs = 0
    /\ ndocs = 0
    /\ embeddings = "None"
    /\ neo4j_graph = None
    /\ graph_data = EmptyGraphData
    /\ domains = <<>>
    /\ paper_concepts = <<>>
    /\ idx = 0
    /\ concepts = <<>>
    /\ methods = <<>>
    /\ applications = <<>>
    /\ run_docs = <<>>
    /\ ret = "none"
    /\ dg_pc = "called"
    /\ primary_gaps = <<>>
    /\ lc_gaps = <<>>
    /\ topic_gaps = <<>>
    /\ llm_gaps = <<>>
    /\ all_gaps = <<>>
    /\ llm_response = None
    /\ llm_prompted = FALSE
    /\ hardcoded = FALSE
    /\ unique_gaps = <<>>
    /\ query_results = <<>>
    /\ IdeasIdle
    /\ CallsIdle

SpecMemory == InitMemory /\ [][NextGaps]_vars

\* The node kinds a relationship of each type connects (lines 167-257 of
\* knowledge_extraction.py).
SourceLabel(type) ==
    CASE type \in {"APPEARS_IN", "BELONGS_TO", "IMPLEMENTED_BY", "RELATED_TO",
                   "CO_OCCURS_WITH"} -> "Concept"
      [] type = "USED_IN" -> "Method"
      [] OTHER -> "Application"

TargetLabel(type) ==
    CASE type \in {"APPEARS_IN", "USED_IN", "DESCRIBED_IN"} -> "Paper"
      [] type = "BELONGS_TO" -> "Domain"
      [] type \in {"USES", "IMPLEMENTED_BY"} -> "Method"
      [] OTHER -> "Concept"

\* The relationship ends that are the Concept node of this name.
ConceptNodeEnds(relationships, name) ==
    Cardinality({i \in 1..Len(relationships) :
                    /\ relationships[i].source = name
                    /\ SourceLabel(relationships[i].type) = "Concept"})
    + Cardinality({i \in 1..Len(relationships) :
                      /\ relationships[i].target = name
                      /\ TargetLabel(relationships[i].type) = "Concept"})

endswith(s, p) ==
    Len(s) >= Len(p) /\ SubSeq(s, Len(s) - Len(p) + 1, Len(s)) = p

\* The concept gaps among the gaps of the in-memory analysis.
ConceptGaps ==
    SelectSeq(primary_gaps, LAMBDA gap :
        ~endswith(gap, ApplicationsSuffix) /\ ~contains(gap, IntegratedWith))

\* C21: the concept gaps of detect_gaps_in_memory are exactly the (at most
\* 3) Concept nodes with the fewest relationships among those with fewer
\* than 3, in ascending order of count, a Concept node's count being the
\* number of relationship ends that are that Concept node (ends that are a
\* Method, Application, Domain or Paper of the same name do not count).
C21_FewestConceptNodes ==
    (dg_pc # "called" /\ graph.kind = "dict") =>
        LET Count(c) == ConceptNodeEnds(graph.relationships, c)
            few == {c \in Range(NodeNames(graph.nodes, "Concept")) :
                       Count(c) < 3}
            n == IF Cardinality(few) < 3 THEN Cardinality(few) ELSE 3
        IN  /\ Len(ConceptGaps) = n
            /\ Range(ConceptGaps) \subseteq few
            /\ \A i, j \in 1..n :
                   i < j => /\ ConceptGaps[i] # ConceptGaps[j]
                            /\ Count(ConceptGaps[i]) <= Count(ConceptGaps[j])
            /\ \A c \in few \ Range(ConceptGaps), i \in 1..n :
                   Count(ConceptGaps[i]) <= Count(c)

-----------------------------------------------------------------------------
(* One analysis run: lines 139-149 of app.py *)

\* The domain typed into the form.
RunDomain == <<"x">>

\* The papers of the run, each with the reply the LLM gives for it.
RunCases ==
    {[metadata |-> m, response |-> r] :
        m \in {x \in DocMetadata : ~x.given},
        r \in {ReplySpec, ReplyCase, ReplyNone}}

\* What the service answers to the prompts of the run.
RunContents == {Str(<<"T">>)}

\* Line 142: langchain_graph = build_langchain_graph(papers, extracted_data)
CallBuildLangchainGraph ==
    /\ pc = "returned"
    /\ lc_call.pc = "idle"
    /\ lc_call' = [pc |-> "called",
                   docs |-> [i \in 1..Len(run_docs) |->
                                [page_content |-> ContentNear,
                                 metadata |-> [given |-> FALSE, id |-> <<>>,
                                               title |-> <<>>]]],
                   knowledge_graph |-> None]
    /\ UNCHANGED <<extractVars, gapVars, ideaVars, similarity_call,
                   truncate_call>>

\* Line 145: gaps = detect_gaps(graph, langchain_graph)
CallDetectGaps ==
    /\ lc_call.pc = "returned"
    /\ dg_pc = "idle"
    /\ graph' = IF ret = "neo4j_graph" THEN neo4j_graph ELSE graph_data
    /\ lc_graph' = lc_call.knowledge_graph
    /\ topics' = None
    /\ dg_pc' = "called"
    /\ UNCHANGED <<primary_gaps, lc_gaps, topic_gaps, llm_gaps, all_gaps,
                   llm_response, llm_prompted, hardcoded, unique_gaps,
                   query_results, extractVars, ideaVars, callVars>>

\* Line 149: ideas = generate_research_ideas(gaps, domain)
CallGenerateIdeas ==
    /\ dg_pc = "returned"
    /\ ig_pc = "idle"
    /\ gaps' = unique_gaps
    /\ domain' = RunDomain
    /\ ideas' = <<>>
    /\ ig_i' = 0
    /\ ig_pc' = "loop"
    /\ UNCHANGED <<extractVars, gapVars, callVars>>

NextRun ==
    \/ \E store \in {h \in StoreHandles : h.kind = "None" \/ Connected(h)} :
          FirstExtractStart(RunDomain, store, "None")
    \/ \E doc \in RunCases : ProcessDoc(doc.metadata, doc.response)
    \/ RelatedPass
    \/ CoOccurPass
    \/ CallBuildLangchainGraph
    \/ \E order \in SetOrders(extracted_data) : BuildLangchainGraph(order)
    \/ CallDetectGaps
    \/ \E results \in {r \in StoreAnswers(graph) :
                          \A i \in 1..Len(r) : r[i] = NoRecords},
          listed \in Orders(find_topic_gaps(topics, extracted_data)) :
          DetectStructural(results, listed)
    \/ \E order \in SetOrders(extracted_data),
          api \in ApiOutcomes(RunContents) :
          DetectLlmFallback(order, api, 1)
    \/ DetectReturn
    \/ CallGenerateIdeas
    \/ \E api \in ApiOutcomes(RunContents) : GenerateIdea(api, 1)
    \/ ReturnIdeas

SpecRun == Init /\ [][NextRun]_vars

SetNames == {"concepts", "methods", "applications", "domains"}

\* A step removes no member of any of the four sets.
OnlyGrows ==
    \A k \in SetNames : extracted_data[k] \subseteq extracted_data'[k]

\* Every item a reply listed is a member, spelled as listed.
ListedAreMembers ==
    \A i \in 1..Len(run_docs) :
        /\ Range(run_docs[i].concepts) \subseteq extracted_data.concepts
        /\ Range(run_docs[i].methods) \subseteq extracted_data.methods
        /\ Range(run_docs[i].applications) \subseteq extracted_data.applications

\* C22: within one analysis run, every step of
\* extract_knowledge_and_build_graph, build_langchain_graph, detect_gaps and
\* generate_research_ideas leaves each of the four ExtractedData sets a
\* superset of what it was, and membership is by case-sensitive exact string.
C22_SetsOnlyGrow == [][OnlyGrows]_vars /\ []ListedAreMembers

\* The run has ended; its second paper added to the sets of the first, and
\* the sets hold both a and A.
C22_Witness ==
    /\ ig_pc = "returned"
    /\ Len(run_docs) = 2
    /\ Range(run_docs[1].concepts) # Range(run_docs[2].concepts)
    /\ {<<"a">>, <<"A">>, <<"B">>} \subseteq extracted_data.concepts
    /\ lower(<<"A">>) = <<"a">>

-----------------------------------------------------------------------------
(* detect_gaps on a lightweight graph alone *)

\* The extracted_data the lightweight graph was built from.
AnalyzeData ==
    {EmptyExtractedData,
     [concepts |-> {<<"a">>, <<"b">>, <<"c">>, <<"z">>},
      methods |-> {<<"m">>, <<"n">>, <<"k">>},
      applications |-> {<<"a", "p", "p">>},
      domains |-> {<<"x">>}]}

\* The documents it was built from.
AnalyzeDocs ==
    {[i \in 1..Len(l) |->
         [page_content |-> l[i],
          metadata |-> [given |-> FALSE, id |-> <<>>, title |-> <<>>]]] :
        l \in {<<>>, <<ContentNear>>, <<ContentNone>>}}

\* detect_gaps(None, lc_graph) after build_langchain_graph.
InitAnalyze ==
    /\ extracted_data \in AnalyzeData
    /\ \E docs \in AnalyzeDocs, order \in SetOrders(extracted_data) :
          lc_graph = build_langchain_graph(docs, order)
    /\ graph = None
    /\ topics = None
    /\ pc = "idle"
    /\ runs = 0
    /\ ndocs = 0
    /\ embeddings = "None"
    /\ neo4j_graph = None
    /\ graph_data = EmptyGraphData
    /\ domains = <<>>
    /\ paper_concepts = <<>>
    /\ idx = 0
    /\ concepts = <<>>
    /\ methods = <<>>
    /\ applications = <<>>
    /\ run_docs = <<>>
    /\ ret = "none"
    /\ dg_pc = "called"
    /\ primary_gaps = <<>>
    /\ lc_gaps = <<>>
    /\ topic_gaps = <<>>
    /\ llm_gaps = <<>>
    /\ all_gaps = <<>>
    /\ llm_response = None
    /\ llm_prompted = FALSE
    /\ hardcoded = FALSE
    /\ unique_gaps = <<>>
    /\ query_results = <<>>
    /\ IdeasIdle
    /\ CallsIdle

SpecAnalyze == InitAnalyze /\ [][NextGaps]_vars

\* The number of edge endpoints equal to the node id.
EdgeEnds(node_id) ==
    Cardinality({e \in (1..Len(lc_graph.edges)) \X {"source", "target"} :
                    lc_graph.edges[e[1]][e[2]] = node_id})

\* The names of the Concept nodes with fewer than 2 edge endpoints.
IsolatedNames ==
    {lc_graph.nodes[i].properties.name :
        i \in {k \in 1..Len(lc_graph.nodes) :
                  /\ lc_graph.nodes[k].type = "Concept"
                  /\ EdgeEnds(lc_graph.nodes[k].id) < 2}}

\* The names of the Method nodes no USES edge points to.
UnusedNames ==
    {lc_graph.nodes[i].properties.name :
        i \in {k \in 1..Len(lc_graph.nodes) :
                  /\ lc_graph.nodes[k].type = "Method"
                  /\ \A j \in 1..Len(lc_graph.edges) :
                         ~(/\ lc_graph.edges[j].type = "USES"
                           /\ lc_graph.edges[j].target
                                  = lc_graph.nodes[k].id)}}

AtMost(n, limit) == IF n < limit THEN n ELSE limit

\* C23: analyze_langchain_graph returns, in this order, at most 3 names of
\* Concept nodes whose connectivity is less than 2, then at most 2 names of
\* Method nodes that are the target of no USES edge; a concept with
\* connectivity 2 or more and a method with an incoming USES edge are never
\* returned.
C23_IsolatedThenUnused ==
    (dg_pc # "called" /\ lc_graph.kind = "dict") =>
        LET nc == AtMost(Cardinality(IsolatedNames), 3)
            nm == AtMost(Cardinality(UnusedNames), 2)
        IN  /\ Len(lc_gaps) = nc + nm
            /\ \A i \in 1..nc : lc_gaps[i] \in IsolatedNames
            /\ \A i \in (nc + 1)..(nc + nm) : lc_gaps[i] \in UnusedNames
            /\ \A i, j \in 1..nc : i # j => lc_gaps[i] # lc_gaps[j]
            /\ \A i, j \in (nc + 1)..(nc + nm) :
                   i # j => lc_gaps[i] # lc_gaps[j]

\* Four isolated concepts and three unused methods: three and two names.
C23_Witness ==
    /\ dg_pc = "returned"
    /\ lc_graph.kind = "dict"
    /\ Cardinality(IsolatedNames) = 4
    /\ Cardinality(UnusedNames) = 3
    /\ Len(lc_gaps) = 5

\* A concept with three edge endpoints and a used method are left out, an
\* isolated concept and an unused method are returned.
LeftOutReached ==
    /\ dg_pc = "returned"
    /\ lc_graph.kind = "dict"
    /\ EdgeEnds(ConceptIdPrefix \o <<"a">>) = 3
    /\ <<"a">> \notin Range(lc_gaps)
    /\ <<"m">> \notin Range(lc_gaps)
    /\ lc_gaps = << <<"z">>, <<"k">> >>

-----------------------------------------------------------------------------
(* The co-occurrence heuristic on the graphs the extraction returns *)

\* The ids of the Paper nodes of the graph, in node order.
PaperIds ==
    LET papers == SelectSeq(graph.nodes, LAMBDA n : n.label = "Paper")
    IN  [i \in 1..Len(papers) |-> papers[i].properties.id]

\* The documents of the call had pairwise distinct paper ids.
DistinctPaperIds ==
    \A i, j \in 1..Len(PaperIds) : i # j => PaperIds[i] # PaperIds[j]

\* The positions of the APPEARS_IN relationships of the graph.
AppearsIn ==
    {i \in 1..Len(graph.relationships) :
        graph.relationships[i].type = "APPEARS_IN"}

CoOccurLinked(a, b) ==
    \E k \in 1..Len(graph.relationships) :
        /\ graph.relationships[k].type = "CO_OCCURS_WITH"
        /\ {graph.relationships[k].source, graph.relationships[k].target}
               = {a, b}

IntegrationEmitted ==
    \E i \in 1..Len(primary_gaps) : contains(primary_gaps[i], IntegratedWith)

\* C24: on an in-memory graph returned by extract_knowledge_and_build_graph
\* for documents with pairwise distinct paper ids, detect_gaps_in_memory
\* emits no "<c1> integrated with <c2>" gap: every pair of concepts with
\* APPEARS_IN edges to one paper is linked by a CO_OCCURS_WITH relationship.
C24_NoIntegrationGap ==
    (dg_pc # "called" /\ graph.kind = "dict" /\ DistinctPaperIds) =>
        /\ ~IntegrationEmitted
        /\ \A i, j \in AppearsIn :
               (/\ i < j
                /\ graph.relationships[i].target
                       = graph.relationships[j].target)
                   => CoOccurLinked(graph.relationships[i].source,
                                    graph.relationships[j].source)

\* Two papers with distinct ids, one listing A and B, the other A twice:
\* both pairs are linked and no integration gap is emitted.
C24_Witness ==
    /\ dg_pc = "returned"
    /\ graph.kind = "dict"
    /\ DistinctPaperIds
    /\ Len(PaperIds) = 2
    /\ CoOccurLinked(<<"A">>, <<"B">>)
    /\ CoOccurLinked(<<"A">>, <<"A">>)
    /\ ~IntegrationEmitted

\* Two papers with the same id: the heuristic emits a gap.
SameIdEmits ==
    /\ dg_pc = "returned"
    /\ graph.kind = "dict"
    /\ ~DistinctPaperIds
    /\ IntegrationEmitted

-----------------------------------------------------------------------------
(* Referential integrity of the in-memory graph *)

\* What a relationship end can name: the name of a Concept, Method,
\* Application or Domain node, or the id of a Paper node.
NodeKeys(nodes) ==
    {nodes[i].properties.name :
        i \in {k \in 1..Len(nodes) : nodes[k].label # "Paper"}}
    \cup {nodes[i].properties.id :
             i \in {k \in 1..Len(nodes) : nodes[k].label = "Paper"}}

\* C25: after any sequence of runs and for any replies, every relationship
\* of the returned in-memory graph has a source and a target that are each
\* the name of a Concept, Method, Application or Domain node or the id of a
\* Paper node of the same graph.
C25_EndsAreNodes ==
    (pc = "returned" /\ ret = "graph_data") =>
        \A k \in 1..Len(graph_data.relationships) :
            /\ graph_data.relationships[k].source \in NodeKeys(graph_data.nodes)
            /\ graph_data.relationships[k].target \in NodeKeys(graph_data.nodes)

-----------------------------------------------------------------------------
(* The inputs of detect_gaps *)

\* A step leaves the two lists of an in-memory graph as they were.
SameMemoryGraph ==
    graph.kind = "dict" =>
        /\ graph'.kind = "dict"
        /\ graph'.nodes = graph.nodes
        /\ graph'.relationships = graph.relationships

\* A step leaves the two lists of a lightweight graph as they were.
SameLightweightGraph ==
    lc_graph.kind = "dict" =>
        /\ lc_graph'.kind = "dict"
        /\ lc_graph'.nodes = lc_graph.nodes
        /\ lc_graph'.edges = lc_graph.edges

SameSets ==
    \A k \in SetNames : extracted_data'[k] = extracted_data[k]

\* C26: detect_gaps is read-only on its inputs: no step of the call changes
\* the nodes and relationships lists of the in-memory graph, the nodes and
\* edges lists of the lightweight graph, or any of the four ExtractedData
\* sets.
C26_InputsUnchanged ==
    [][SameMemoryGraph /\ SameLightweightGraph /\ SameSets]_vars

\* A returned call that took gaps from the in-memory graph, from the
\* lightweight graph and from the topics.
C26_Witness ==
    /\ dg_pc = "returned"
    /\ graph.kind = "dict"
    /\ graph.relationships # <<>>
    /\ lc_graph.kind = "dict"
    /\ lc_graph.edges # <<>>
    /\ extracted_data.concepts # {}
    /\ primary_gaps # <<>>
    /\ lc_gaps # <<>>
    /\ topic_gaps # <<>>

====
